---------------------------- MODULE Spec2Model ----------------------------
(***************************************************************************)
(* A model of the ccost ingestion-and-aggregation pipeline                  *)
(* (src/src/data_loader.rs, time_utils.rs, pricing.rs).                     *)
(*                                                                         *)
(* Conventions.                                                            *)
(*   - A Rust String is a sequence of one-character strings, compared byte  *)
(*     by byte through CharCode, as str::cmp does.                          *)
(*   - Option<T> is a sequence of length 0 (None) or 1 (Some(x)).           *)
(*   - A HashMap is a function; a HashSet is a set; iteration over a        *)
(*     HashMap chooses the next key nondeterministically.                   *)
(***************************************************************************)
EXTENDS Integers, Sequences, FiniteSets, TLC

VARIABLES
    env,               \* the file system, the options and the command: fixed inputs of a run
    claude_paths,      \* Option: the Result of the roots this invocation searches
    report,            \* Option: what the command printed
    scan_retries,      \* failed reads the earliest-timestamp scan has retried, modulo 2
    run,               \* 1 for the first invocation, 2 for the repeated one
    first,             \* Option: what the first invocation returned
    pc,                \* position in load_daily_usage_data / load_monthly_usage_data
    file_list,         \* Vec<PathBuf> (indices into env.fs) in discovery order
    sorted_files,      \* Vec<PathBuf> after sort_files_by_timestamp
    chunk_start,       \* number of files of sorted_files in completed batches
    parsed_chunks,     \* position in the current batch -> Option<Result<Vec<ParsedRecord>>>
    processed_hashes,  \* HashSet<String>
    aggregates,        \* HashMap<String, Aggregate>
    results,           \* Vec<DailyUsage> / Vec<MonthlyUsage> being pushed by the finalisation loop
    daily,             \* Option<Result<Vec<DailyUsage>>>: what load_daily_usage_data returned
    outcome,           \* Option<Result<..>>: what the command returned
    folded             \* history: origins <<file, line>> of the records folded, in fold order

vars == << env, claude_paths, report, scan_retries, run, first, pc, file_list, sorted_files, chunk_start, parsed_chunks,
           processed_hashes, aggregates, results, daily, outcome, folded >>

-----------------------------------------------------------------------------
(* Option<T> *)

None == << >>

Some(x) == << x >>

IsSome(o) == Len(o) > 0

Unwrap(o) == o[1]

UnwrapOr(o, d) == IF IsSome(o) THEN o[1] ELSE d

Range(s) == { s[i] : i \in 1..Len(s) }

-----------------------------------------------------------------------------
(* Strings *)

\* byte value of the characters the model uses ("NUL" stands for U+0000)
CharCode(c) ==
    CASE c = "NUL" -> 0
      [] c = " " -> 32
      [] c = "-" -> 45
      [] c = "." -> 46
      [] c = "/" -> 47
      [] c = "0" -> 48 [] c = "1" -> 49 [] c = "2" -> 50 [] c = "3" -> 51
      [] c = "4" -> 52 [] c = "5" -> 53 [] c = "6" -> 54 [] c = "7" -> 55
      [] c = "8" -> 56 [] c = "9" -> 57
      [] c = ":" -> 58
      [] c = "<" -> 60
      [] c = ">" -> 62
      [] c = "A" -> 65 [] c = "B" -> 66
      [] c = "a" -> 97 [] c = "b" -> 98 [] c = "c" -> 99 [] c = "d" -> 100
      [] c = "e" -> 101 [] c = "h" -> 104 [] c = "i" -> 105 [] c = "j" -> 106
      [] c = "k" -> 107 [] c = "l" -> 108 [] c = "m" -> 109 [] c = "n" -> 110
      [] c = "o" -> 111 [] c = "p" -> 112 [] c = "q" -> 113 [] c = "r" -> 114
      [] c = "s" -> 115 [] c = "t" -> 116 [] c = "u" -> 117 [] c = "w" -> 119
      [] c = "x" -> 120 [] c = "y" -> 121

\* str::cmp: lexicographic on bytes, a proper prefix is less; -1, 0 or 1
RECURSIVE StrCmp(_, _)
StrCmp(a, b) ==
    IF Len(a) = 0 /\ Len(b) = 0 THEN 0
    ELSE IF Len(a) = 0 THEN -1
    ELSE IF Len(b) = 0 THEN 1
    ELSE IF CharCode(Head(a)) < CharCode(Head(b)) THEN -1
    ELSE IF CharCode(Head(a)) > CharCode(Head(b)) THEN 1
    ELSE StrCmp(Tail(a), Tail(b))

\* str::replace(c, ""): every occurrence of the character removed
RemoveChar(s, c) == SelectSeq(s, LAMBDA x : x # c)

\* str::trim().is_empty()
IsBlank(s) == \A i \in 1..Len(s) : s[i] = " "

\* position of the first occurrence of c in s, 0 when there is none
FirstIndexOf(s, c) ==
    IF \E i \in 1..Len(s) : s[i] = c
    THEN CHOOSE i \in 1..Len(s) : s[i] = c /\ \A j \in 1..(i - 1) : s[j] # c
    ELSE 0

\* position of the last occurrence of c in s, 0 when there is none
LastIndexOf(s, c) ==
    IF \E i \in 1..Len(s) : s[i] = c
    THEN CHOOSE i \in 1..Len(s) : s[i] = c /\ \A j \in (i + 1)..Len(s) : s[j] # c
    ELSE 0

\* str::split_once(c): Some(<<before, after>>) at the first c, None without one
SplitOnce(s, c) ==
    LET i == FirstIndexOf(s, c)
    IN  IF i = 0 THEN None
        ELSE Some(<< SubSeq(s, 1, i - 1), SubSeq(s, i + 1, Len(s)) >>)

\* str::trim(): the string without its leading and trailing spaces
Trim(s) ==
    IF IsBlank(s) THEN << >>
    ELSE SubSeq(s, CHOOSE i \in 1..Len(s) : s[i] # " " /\ \A j \in 1..(i - 1) : s[j] = " ",
                   CHOOSE i \in 1..Len(s) : s[i] # " " /\ \A j \in (i + 1)..Len(s) : s[j] = " ")

\* str::split(c): the pieces between the occurrences of c, empty pieces included
RECURSIVE Split(_, _)
Split(s, c) ==
    LET i == FirstIndexOf(s, c)
    IN  IF i = 0 THEN << s >>
        ELSE << SubSeq(s, 1, i - 1) >> \o Split(SubSeq(s, i + 1, Len(s)), c)

\* PathBuf::from: the components of a path string (paths compare by components)
PathBufFrom(s) ==
    (IF s # << >> /\ Head(s) = "/" THEN << << "/" >> >> ELSE << >>)
    \o SelectSeq(Split(s, "/"), LAMBDA part : part # << >>)

\* the decimal digits of n, zero-padded to at least width characters ("{:0w}")
RECURSIVE PadNum(_, _)
PadNum(n, width) ==
    LET d == << "0", "1", "2", "3", "4", "5", "6", "7", "8", "9" >>
    IN  IF n < 10 /\ width <= 1 THEN << d[n + 1] >>
        ELSE Append(PadNum(n \div 10, width - 1), d[(n % 10) + 1])

CLAUDE_PROJECTS_DIR_NAME == << "p", "r", "o", "j", "e", "c", "t", "s" >>

SYNTHETIC == << "<", "s", "y", "n", "t", "h", "e", "t", "i", "c", ">" >>

UNKNOWN == << "u", "n", "k", "n", "o", "w", "n" >>

JSONL == << "j", "s", "o", "n", "l" >>

-----------------------------------------------------------------------------
(* time_utils.rs *)

\* A timestamp string is [parses |-> whether DateTime::parse_from_rfc3339 accepts it,
\*                        utc    |-> the instant, in hours since 2024-01-01T00:00Z].
\* A zone is named by a TLA+ string; chrono_tz knows the names of KnownZone.

IsLeap(y) == (y % 4 = 0 /\ y % 100 # 0) \/ y % 400 = 0

DaysInMonth(y, m) ==
    IF m = 2 THEN (IF IsLeap(y) THEN 29 ELSE 28)
    ELSE IF m \in {4, 6, 9, 11} THEN 30 ELSE 31

\* the civil date n days after the first day of month m of year y
RECURSIVE CivilFrom(_, _, _)
CivilFrom(y, m, n) ==
    IF n < DaysInMonth(y, m) THEN [year |-> y, month |-> m, day |-> n + 1]
    ELSE CivilFrom(IF m = 12 THEN y + 1 ELSE y, IF m = 12 THEN 1 ELSE m + 1,
                   n - DaysInMonth(y, m))

\* DateTime::with_timezone(tz).date_naive() for a zone offset hours east of UTC
date_naive(utc, offset) == CivilFrom(2024, 1, (utc + offset) \div 24)

\* Tz::from_str(name).ok(): the zone's offset from UTC in hours
TzFromStr(name) ==
    CASE name = "UTC" -> Some(0)
      [] name = "Asia/Tokyo" -> Some(9)
      [] OTHER -> None

format_date_with_tz(timestamp, timezone, local_offset) ==
    IF ~timestamp.parses THEN None
    ELSE LET date == date_naive(timestamp.utc, UnwrapOr(timezone, local_offset))
         IN  Some(PadNum(date.year, 4) \o << "-" >> \o PadNum(date.month, 2)
                  \o << "-" >> \o PadNum(date.day, 2))

format_date(timestamp, timezone, local_offset) ==
    IF IsSome(timezone) /\ ~IsSome(TzFromStr(Unwrap(timezone))) THEN None
    ELSE format_date_with_tz(timestamp,
             IF IsSome(timezone) THEN TzFromStr(Unwrap(timezone)) ELSE None,
             local_offset)

format_month(date_str) ==
    IF Len(date_str) >= 7 THEN Some(SubSeq(date_str, 1, 7)) ELSE None

\* the closure of filter_by_date_range: whether an item dated date_str is kept
\* a range that leaves out the day it starts on
KeepInRangeAfterSince(date_str, since, until) ==
    LET compact == RemoveChar(date_str, "-")
    IN  IF IsSome(since) /\ StrCmp(compact, Unwrap(since)) <= 0 THEN FALSE
        ELSE IF IsSome(until) /\ StrCmp(compact, Unwrap(until)) > 0 THEN FALSE
        ELSE TRUE

KeepInRange(date_str, since, until) ==
    LET compact == RemoveChar(date_str, "-")
    IN  IF IsSome(since) /\ StrCmp(compact, Unwrap(since)) < 0 THEN FALSE
        ELSE IF IsSome(until) /\ StrCmp(compact, Unwrap(until)) > 0 THEN FALSE
        ELSE TRUE

\* a filter that takes no notice of the end of the range
filter_by_date_range_SinceOnly(items, get_date, since, until) ==
    IF ~IsSome(since) THEN items
    ELSE SelectSeq(items, LAMBDA item : KeepInRange(item[get_date], since, None))

\* get_date: the name of the field the closure reads ("date" or "month")
filter_by_date_range(items, get_date, since, until) ==
    IF ~IsSome(since) /\ ~IsSome(until) THEN items
    ELSE SelectSeq(items, LAMBDA item : KeepInRange(item[get_date], since, until))

\* slice::sort_by is a stable sort: an item is preceded by the items that compare
\* less than it and by the earlier items that compare equal to it;
\* less[i, j]: whether the comparator puts items[i] strictly before items[j]
StableSort(items, less) ==
    LET n == Len(items)
        rank(i) == 1 + Cardinality({ j \in 1..n :
                        \/ less[j, i]
                        \/ ~less[i, j] /\ j < i })
    IN  [ p \in 1..n |-> items[CHOOSE i \in 1..n : rank(i) = p] ]

\* a comparator that takes no notice of the order asked for
DateLessAscending(a, b, order) == StrCmp(a, b) < 0

\* the comparator of sort_by_date, as "a sorts strictly before b"
DateLess(a, b, order) ==
    IF order = "asc" THEN StrCmp(a, b) < 0 ELSE StrCmp(b, a) < 0

\* get_date: the name of the field the closure reads ("date" or "month")
sort_by_date(items, get_date, order) ==
    StableSort(items, [ i, j \in 1..Len(items) |->
                          DateLess(items[i][get_date], items[j][get_date], order) ])

-----------------------------------------------------------------------------
(* pricing.rs *)

\* Money (an f64 number of dollars in the source) is a whole number of cost units;
\* a rate is a whole number of cost units per token.

DEFAULT_TIERED_THRESHOLD == 200000

\* str::to_lowercase on the characters the model uses
ToLower(s) ==
    [ i \in 1..Len(s) |-> CASE s[i] = "A" -> "a" [] s[i] = "B" -> "b" [] OTHER -> s[i] ]

\* str::contains
Contains(hay, needle) ==
    \E i \in 1..(Len(hay) - Len(needle) + 1) :
        SubSeq(hay, i, i + Len(needle) - 1) = needle

\* the bundled dataset (assets/claude_pricing.json, assets/codex_pricing.json)
PricingEntry(inp, out, cc, cr, inp_above, out_above) ==
    [ input_cost_per_token |-> inp,
      output_cost_per_token |-> out,
      cache_creation_input_token_cost |-> cc,
      cache_read_input_token_cost |-> cr,
      input_cost_per_token_above_200k_tokens |-> inp_above,
      output_cost_per_token_above_200k_tokens |-> out_above,
      cache_creation_input_token_cost_above_200k_tokens |-> None,
      cache_read_input_token_cost_above_200k_tokens |-> None ]

\* The entries a bundled dataset may hold, by key. The dataset of a run is the
\* part of it whose keys the run's dataset_order lists.
pricing_dataset ==
    << "c", "l", "a", "u", "d", "e", "-", "B" >> :>
        [ PricingEntry(Some(3), Some(15), Some(4), Some(1), Some(6), Some(22)) EXCEPT
            !.cache_creation_input_token_cost_above_200k_tokens = Some(5) ]
    @@ << "g", "p", "t", "-", "5" >> :>
        PricingEntry(Some(2), Some(10), None, Some(1), None, None)
    @@ << "o", "p", "e", "n", "a", "i", "/", "g", "p", "t", "-", "5", "-", "c", "o", "d", "e", "x" >> :>
        [ PricingEntry(None, Some(12), Some(3), None, Some(9), None) EXCEPT
            !.cache_read_input_token_cost_above_200k_tokens = Some(8) ]

provider_prefixes ==
    << << "a", "n", "t", "h", "r", "o", "p", "i", "c", "/" >>,
       << "c", "l", "a", "u", "d", "e", "-", "3", "-", "5", "-" >>,
       << "c", "l", "a", "u", "d", "e", "-", "3", "-" >>,
       << "c", "l", "a", "u", "d", "e", "-" >>,
       << "o", "p", "e", "n", "a", "i", "/" >>,
       << "a", "z", "u", "r", "e", "/" >>,
       << "o", "p", "e", "n", "r", "o", "u", "t", "e", "r", "/", "o", "p", "e", "n", "a", "i", "/" >> >>

model_aliases ==
    << "g", "p", "t", "-", "5", "-", "c", "o", "d", "e", "x" >> :> << "g", "p", "t", "-", "5" >>

candidate_names(model_name) ==
    << model_name >> \o [ i \in 1..Len(provider_prefixes) |-> provider_prefixes[i] \o model_name ]

\* the first element of a sequence that is one of the matching values, as an Option
FirstWhere(seq, matching) ==
    IF \E i \in 1..Len(seq) : seq[i] \in matching
    THEN Some(seq[CHOOSE i \in 1..Len(seq) :
                     seq[i] \in matching /\ \A j \in 1..(i - 1) : seq[j] \notin matching])
    ELSE None

\* a lookup that tries the alias before the provider-prefixed names
get_model_pricing_AliasFirst(model_name, dataset_order) ==
    LET alias == IF model_name \in DOMAIN model_aliases
                 THEN candidate_names(model_aliases[model_name]) ELSE << >>
        candidates == << model_name >> \o alias \o Tail(candidate_names(model_name))
        found == FirstWhere(candidates, Range(dataset_order))
        lower == ToLower(model_name)
        fuzzy == FirstWhere(dataset_order,
                     { key \in Range(dataset_order) :
                         \/ Contains(ToLower(key), lower)
                         \/ Contains(lower, ToLower(key)) })
    IN  IF IsSome(found) THEN Some(pricing_dataset[Unwrap(found)])
        ELSE IF IsSome(fuzzy) THEN Some(pricing_dataset[Unwrap(fuzzy)])
        ELSE None

\* dataset_order: the keys of the dataset, in the order in which this process's
\* HashMap iterates them
get_model_pricing(model_name, dataset_order) ==
    LET names == << model_name >> \o
                 (IF model_name \in DOMAIN model_aliases
                  THEN << model_aliases[model_name] >> ELSE << >>)
        candidates == IF Len(names) = 1 THEN candidate_names(names[1])
                      ELSE candidate_names(names[1]) \o candidate_names(names[2])
        found == FirstWhere(candidates, Range(dataset_order))
        lower == ToLower(model_name)
        fuzzy == FirstWhere(dataset_order,
                     { key \in Range(dataset_order) :
                         \/ Contains(ToLower(key), lower)
                         \/ Contains(lower, ToLower(key)) })
    IN  IF IsSome(found) THEN Some(pricing_dataset[Unwrap(found)])
        ELSE IF IsSome(fuzzy) THEN Some(pricing_dataset[Unwrap(fuzzy)])
        ELSE None

\* a tiered cost that charges the whole count at the tiered rate
calculate_tiered_cost_WholeCountTiered(total, base, tiered, threshold) ==
    IF total = 0 THEN 0
    ELSE IF total > threshold /\ IsSome(tiered)
    THEN total * UnwrapOr(tiered, 0)
    ELSE UnwrapOr(base, 0) * total

calculate_tiered_cost(total, base, tiered, threshold) ==
    IF total = 0 THEN 0
    ELSE IF total > threshold /\ IsSome(tiered)
    THEN LET below == IF total < threshold THEN total ELSE threshold
             above == total - threshold
         IN  above * UnwrapOr(tiered, 0) + (IF IsSome(base) THEN below * Unwrap(base) ELSE 0)
    ELSE UnwrapOr(base, 0) * total

calculate_cost_from_pricing(tokens, pricing) ==
    calculate_tiered_cost(tokens.input_tokens, pricing.input_cost_per_token,
        pricing.input_cost_per_token_above_200k_tokens, DEFAULT_TIERED_THRESHOLD)
    + calculate_tiered_cost(tokens.output_tokens, pricing.output_cost_per_token,
        pricing.output_cost_per_token_above_200k_tokens, DEFAULT_TIERED_THRESHOLD)
    + calculate_tiered_cost(tokens.cache_creation_input_tokens,
        pricing.cache_creation_input_token_cost,
        pricing.cache_creation_input_token_cost_above_200k_tokens, DEFAULT_TIERED_THRESHOLD)
    + calculate_tiered_cost(tokens.cache_read_input_tokens,
        pricing.cache_read_input_token_cost,
        pricing.cache_read_input_token_cost_above_200k_tokens, DEFAULT_TIERED_THRESHOLD)

calculate_cost_from_tokens(tokens, model_name, dataset_order) ==
    IF ~IsSome(model_name) \/ Len(Unwrap(model_name)) = 0 THEN 0
    ELSE LET pricing == get_model_pricing(Unwrap(model_name), dataset_order)
         IN  IF IsSome(pricing) THEN calculate_cost_from_pricing(tokens, Unwrap(pricing))
             ELSE 0

-----------------------------------------------------------------------------
(* data_loader.rs: records and parsing *)

\* A file is [path |-> its components, readable |-> whether File::open succeeds,
\*            lines |-> its lines].
\* A line is [form |-> "json" (decodes as UsageData), "malformed" (sonic_rs::from_str
\*            fails), "blank" (only whitespace) or "invalid_utf8" (read_line fails),
\*            data |-> Some(UsageData) for "json"].

extract_project_from_path(path) ==
    LET i == FirstIndexOf(path, CLAUDE_PROJECTS_DIR_NAME)
    IN  IF i = 0 \/ i = Len(path) THEN UNKNOWN
        ELSE IF IsBlank(path[i + 1]) THEN UNKNOWN
        ELSE path[i + 1]

Ok(v) == [ ok |-> TRUE, value |-> v ]

Err == [ ok |-> FALSE, value |-> << >> ]

\* the calls of process_line that process_jsonl_file_by_line makes, as
\* Ok(<<[line_number, line], ...>>), or Err when File::open or a read_line fails
RECURSIVE ReadLoop(_, _)
ReadLoop(lines, line_number) ==
    IF lines = << >> THEN Ok(<< >>)
    ELSE IF Head(lines).form \in { "invalid_utf8", "read_error" } THEN Err
    ELSE LET rest == ReadLoop(Tail(lines), line_number + 1)
         IN  IF ~rest.ok THEN Err
             ELSE IF Head(lines).form = "blank" THEN rest
             ELSE Ok(<< [line_number |-> line_number + 1, line |-> Head(lines)] >>
                     \o rest.value)

\* a reader that takes a file it cannot open for an empty one
process_jsonl_file_by_line_OpenOrEmpty(file) ==
    IF ~file.readable THEN Ok(<< >>) ELSE ReadLoop(file.lines, 0)

process_jsonl_file_by_line(file) ==
    IF ~file.readable THEN Err ELSE ReadLoop(file.lines, 0)

\* a key made of the message id alone when there is no request id
create_unique_hash_IdAlone(data) ==
    IF ~IsSome(data.message) \/ ~IsSome(Unwrap(data.message).id) THEN None
    ELSE LET message_id == Unwrap(Unwrap(data.message).id)
             request_id == IF IsSome(data.request_id) THEN data.request_id
                           ELSE IF IsSome(data.request) THEN Unwrap(data.request).id
                           ELSE None
         IN  Some(message_id \o << ":" >> \o UnwrapOr(request_id, << >>))

create_unique_hash(data) ==
    IF ~IsSome(data.message) \/ ~IsSome(Unwrap(data.message).id) THEN None
    ELSE LET message_id == Unwrap(Unwrap(data.message).id)
             request_id == IF IsSome(data.request_id) THEN data.request_id
                           ELSE IF IsSome(data.request) THEN Unwrap(data.request).id
                           ELSE None
         IN  IF ~IsSome(request_id) THEN None
             ELSE Some(message_id \o << ":" >> \o Unwrap(request_id))

\* tokens read with an absent output count taken as 0
extract_usage_tokens_OutputOptional(message) ==
    IF ~IsSome(message.usage) THEN None
    ELSE LET usage == Unwrap(message.usage)
         IN  IF ~IsSome(usage.input_tokens) THEN None
             ELSE Some([ input_tokens |-> Unwrap(usage.input_tokens),
                         output_tokens |-> UnwrapOr(usage.output_tokens, 0),
                         cache_creation_input_tokens |->
                             UnwrapOr(usage.cache_creation_input_tokens, 0),
                         cache_read_input_tokens |->
                             UnwrapOr(usage.cache_read_input_tokens, 0) ])

extract_usage_tokens(message) ==
    IF ~IsSome(message.usage) THEN None
    ELSE LET usage == Unwrap(message.usage)
         IN  IF ~IsSome(usage.input_tokens) \/ ~IsSome(usage.output_tokens) THEN None
             ELSE Some([ input_tokens |-> Unwrap(usage.input_tokens),
                         output_tokens |-> Unwrap(usage.output_tokens),
                         cache_creation_input_tokens |->
                             UnwrapOr(usage.cache_creation_input_tokens, 0),
                         cache_read_input_tokens |->
                             UnwrapOr(usage.cache_read_input_tokens, 0) ])

\* a cost that in auto mode is always derived
calculate_cost_for_entry_AutoDerives(data, mode, pricing) ==
    LET derived ==
            IF ~IsSome(data.message) THEN 0
            ELSE IF ~IsSome(extract_usage_tokens(Unwrap(data.message))) THEN 0
            ELSE IF ~IsSome(pricing) THEN 0
            ELSE calculate_cost_from_tokens(
                     Unwrap(extract_usage_tokens(Unwrap(data.message))),
                     Unwrap(data.message).model, Unwrap(pricing))
    IN  CASE mode = "display" -> UnwrapOr(data.cost_usd, 0)
          [] mode = "calculate" -> derived
          [] mode = "auto" -> derived

\* pricing: None, or Some(the dataset's iteration order) for a PricingFetcher
calculate_cost_for_entry(data, mode, pricing) ==
    LET derived ==
            IF ~IsSome(data.message) THEN 0
            ELSE IF ~IsSome(extract_usage_tokens(Unwrap(data.message))) THEN 0
            ELSE IF ~IsSome(pricing) THEN 0
            ELSE calculate_cost_from_tokens(
                     Unwrap(extract_usage_tokens(Unwrap(data.message))),
                     Unwrap(data.message).model, Unwrap(pricing))
    IN  CASE mode = "display" -> UnwrapOr(data.cost_usd, 0)
          [] mode = "calculate" -> derived
          [] mode = "auto" -> IF IsSome(data.cost_usd) THEN Unwrap(data.cost_usd)
                              ELSE derived

\* the closure parse_file_records passes to process_jsonl_file_by_line:
\* Some(ParsedRecord) when it pushes a record, None when it returns early.
\* origin = <<file, line number>> is history: where the record was read.
ParseLine(line, origin, project, options, pricing, local_offset) ==
    IF line.form # "json" THEN None
    ELSE LET parsed == Unwrap(line.data)
         IN  IF ~IsSome(parsed.message) THEN None
             ELSE IF ~IsSome(extract_usage_tokens(Unwrap(parsed.message))) THEN None
             ELSE IF ~IsSome(parsed.timestamp) THEN None
             ELSE IF ~IsSome(format_date(Unwrap(parsed.timestamp), options.timezone,
                                         local_offset)) THEN None
             ELSE Some([ unique_hash |-> create_unique_hash(parsed),
                         date |-> Unwrap(format_date(Unwrap(parsed.timestamp),
                                                     options.timezone, local_offset)),
                         project |-> project,
                         model |-> Unwrap(parsed.message).model,
                         tokens |-> Unwrap(extract_usage_tokens(Unwrap(parsed.message))),
                         cost |-> calculate_cost_for_entry(parsed, options.mode, pricing),
                         origin |-> origin ])

\* Vec of the Some values of a sequence of Options, in order
RECURSIVE Somes(_)
Somes(opts) ==
    IF opts = << >> THEN << >>
    ELSE Head(opts) \o Somes(Tail(opts))

parse_file_records(f, file, project, options, pricing, local_offset) ==
    LET read == process_jsonl_file_by_line(file)
    IN  IF ~read.ok THEN Err
        ELSE Ok(Somes([ i \in 1..Len(read.value) |->
                 ParseLine(read.value[i].line, << f, read.value[i].line_number >>,
                           project, options, pricing, local_offset) ]))

\* the earliest RFC3339 timestamp of the decodable lines, as Option<hours>
RECURSIVE EarliestLoop(_, _)
EarliestLoop(lines, earliest) ==
    IF lines = << >> THEN earliest
    ELSE LET line == Head(lines)
             ts == IF line.form = "json" THEN Unwrap(line.data).timestamp ELSE None
         IN  IF IsSome(ts) /\ Unwrap(ts).parses
             THEN EarliestLoop(Tail(lines),
                      IF IsSome(earliest) /\ Unwrap(earliest) <= Unwrap(ts).utc
                      THEN earliest ELSE Some(Unwrap(ts).utc))
             ELSE EarliestLoop(Tail(lines), earliest)

\* the timestamp of the first line that has one, not the earliest
get_earliest_timestamp_FirstTimestamp(file) ==
    LET stamped == SelectSeq(file.lines, LAMBDA line :
                       /\ line.form = "json"
                       /\ IsSome(Unwrap(line.data).timestamp)
                       /\ Unwrap(Unwrap(line.data).timestamp).parses)
    IN  IF ~file.readable \/ stamped = << >> THEN None
        ELSE Some(Unwrap(Unwrap(Head(stamped).data).timestamp).utc)

\* the loop of get_earliest_timestamp reaches its break: no read_line of the
\* file fails on every attempt (`Err(_) => continue` reads again at once)
ScanTerminates(file) ==
    ~file.readable \/ \A i \in 1..Len(file.lines) : file.lines[i].form # "read_error"

get_earliest_timestamp(file) ==
    IF ~file.readable THEN None ELSE EarliestLoop(file.lines, None)

\* a comparator that puts the latest file first
TimestampLessLatestFirst(a_ts, b_ts) ==
    IF IsSome(a_ts) /\ IsSome(b_ts) THEN Unwrap(a_ts) > Unwrap(b_ts)
    ELSE IsSome(a_ts) /\ ~IsSome(b_ts)

\* the comparator of sort_files_by_timestamp, as "a sorts strictly before b"
TimestampLess(a_ts, b_ts) ==
    IF IsSome(a_ts) /\ IsSome(b_ts) THEN Unwrap(a_ts) < Unwrap(b_ts)
    ELSE IsSome(a_ts) /\ ~IsSome(b_ts)

\* files: a sequence of indices into fs
sort_files_by_timestamp(files, fs) ==
    StableSort(files, [ i, j \in 1..Len(files) |->
                          TimestampLess(get_earliest_timestamp(fs[files[i]]),
                                        get_earliest_timestamp(fs[files[j]])) ])

\* Path::extension of a file name
Extension(name) ==
    LET i == LastIndexOf(name, ".")
    IN  IF i <= 1 THEN None ELSE Some(SubSeq(name, i + 1, Len(name)))

IsPrefix(p, s) == Len(p) <= Len(s) /\ SubSeq(s, 1, Len(p)) = p

\* the files glob_usage_files finds under one root: regular files below
\* <base>/projects whose extension is jsonl (the walk's order is not specified)
GlobMatches(base, fs, projects_is_dir) ==
    IF ~projects_is_dir THEN {}
    ELSE { f \in 1..Len(fs) :
             /\ IsPrefix(base \o << CLAUDE_PROJECTS_DIR_NAME >>, fs[f].path)
             /\ Len(fs[f].path) > Len(base) + 1
             /\ Extension(fs[f].path[Len(fs[f].path)]) = Some(JSONL) }

-----------------------------------------------------------------------------
(* data_loader.rs: the fold *)

\* HashMap::insert / entry().or_default() followed by a store
MapPut(map, key, value) ==
    [ k \in DOMAIN map \cup {key} |-> IF k = key THEN value ELSE map[k] ]

MapRemove(map, key) == [ k \in DOMAIN map \ {key} |-> map[k] ]

EmptyMap == [ k \in {} |-> 0 ]

TokenStatsDefault ==
    [ input_tokens |-> 0, output_tokens |-> 0, cache_creation_tokens |-> 0,
      cache_read_tokens |-> 0, cost |-> 0 ]

AggregateDefault ==
    [ input_tokens |-> 0, output_tokens |-> 0, cache_creation_tokens |-> 0,
      cache_read_tokens |-> 0, total_cost |-> 0, models_used |-> << >>,
      models_used_seen |-> {}, model_breakdowns |-> EmptyMap ]

\* a model list that grows at the front
push_model_Front(aggregate, model) ==
    IF model \in aggregate.models_used_seen THEN aggregate
    ELSE [ aggregate EXCEPT !.models_used_seen = @ \cup {model},
                            !.models_used = << model >> \o @ ]

push_model(aggregate, model) ==
    IF model \in aggregate.models_used_seen THEN aggregate
    ELSE [ aggregate EXCEPT !.models_used_seen = @ \cup {model},
                            !.models_used = Append(@, model) ]

\* a breakdown that leaves out the cache-creation count
update_model_breakdowns_NoCacheCreation(breakdowns, model_name, tokens, cost) ==
    LET entry == IF model_name \in DOMAIN breakdowns THEN breakdowns[model_name]
                 ELSE TokenStatsDefault
    IN  MapPut(breakdowns, model_name,
            [ input_tokens |-> entry.input_tokens + tokens.input_tokens,
              output_tokens |-> entry.output_tokens + tokens.output_tokens,
              cache_creation_tokens |-> entry.cache_creation_tokens,
              cache_read_tokens |-> entry.cache_read_tokens + tokens.cache_read_input_tokens,
              cost |-> entry.cost + cost ])

update_model_breakdowns(breakdowns, model_name, tokens, cost) ==
    LET entry == IF model_name \in DOMAIN breakdowns THEN breakdowns[model_name]
                 ELSE TokenStatsDefault
    IN  MapPut(breakdowns, model_name,
            [ input_tokens |-> entry.input_tokens + tokens.input_tokens,
              output_tokens |-> entry.output_tokens + tokens.output_tokens,
              cache_creation_tokens |->
                  entry.cache_creation_tokens + tokens.cache_creation_input_tokens,
              cache_read_tokens |-> entry.cache_read_tokens + tokens.cache_read_input_tokens,
              cost |-> entry.cost + cost ])

\* a fold that never skips a record
IsDuplicateNever(record, hashes) == FALSE

\* whether the fold skips the record as a duplicate (the `continue` of the loop)
IsDuplicate(record, hashes) ==
    IsSome(record.unique_hash) /\ Unwrap(record.unique_hash) \in hashes

\* the bucket key of a record
GroupKey(record, needs_project_grouping) ==
    IF needs_project_grouping THEN record.date \o << "NUL" >> \o record.project
    ELSE record.date

\* the totals of a bucket after a record is added
AddTotals(entry, record) ==
    [ entry EXCEPT
        !.input_tokens = @ + record.tokens.input_tokens,
        !.output_tokens = @ + record.tokens.output_tokens,
        !.cache_creation_tokens = @ + record.tokens.cache_creation_input_tokens,
        !.cache_read_tokens = @ + record.tokens.cache_read_input_tokens,
        !.total_cost = @ + record.cost ]

\* a bucket that lists the synthetic marker like any other model
AddModelAlsoSynthetic(entry, record) ==
    IF IsSome(record.model)
    THEN [ push_model(entry, Unwrap(record.model)) EXCEPT
             !.model_breakdowns = update_model_breakdowns(@, Unwrap(record.model),
                                                          record.tokens, record.cost) ]
    ELSE [ entry EXCEPT
             !.model_breakdowns = update_model_breakdowns(@, UNKNOWN, record.tokens,
                                                          record.cost) ]

\* the model list and the breakdown of a bucket after a record is added
AddModel(entry, record) ==
    IF IsSome(record.model)
    THEN IF Unwrap(record.model) # SYNTHETIC
         THEN [ push_model(entry, Unwrap(record.model)) EXCEPT
                  !.model_breakdowns = update_model_breakdowns(@, Unwrap(record.model),
                                                               record.tokens, record.cost) ]
         ELSE entry
    ELSE [ entry EXCEPT
             !.model_breakdowns = update_model_breakdowns(@, UNKNOWN, record.tokens,
                                                          record.cost) ]

\* one iteration of `for record in records`;
\* st = [hashes |-> processed_hashes, aggs |-> aggregates, folded |-> history]
FoldRecord(st, record, needs_project_grouping) ==
    IF IsDuplicate(record, st.hashes) THEN st
    ELSE LET key == GroupKey(record, needs_project_grouping)
             entry == IF key \in DOMAIN st.aggs THEN st.aggs[key] ELSE AggregateDefault
         IN  [ hashes |-> IF IsSome(record.unique_hash)
                          THEN st.hashes \cup {Unwrap(record.unique_hash)} ELSE st.hashes,
               aggs |-> MapPut(st.aggs, key, AddModel(AddTotals(entry, record), record)),
               folded |-> Append(st.folded, record.origin) ]

RECURSIVE FoldRecords(_, _, _)
FoldRecords(st, records, needs_project_grouping) ==
    IF records = << >> THEN st
    ELSE FoldRecords(FoldRecord(st, Head(records), needs_project_grouping),
                     Tail(records), needs_project_grouping)

\* a fold that takes the results of a batch from the last file to the first
RECURSIVE FoldChunk_LastFirst(_, _, _)
FoldChunk_LastFirst(st, parsed, needs_project_grouping) ==
    IF parsed = << >> THEN Ok(st)
    ELSE LET rest == FoldChunk_LastFirst(st, Tail(parsed), needs_project_grouping)
         IN  IF ~rest.ok \/ ~Head(parsed).ok THEN Err
             ELSE Ok(FoldRecords(rest.value, Head(parsed).value, needs_project_grouping))

\* `for records in parsed_chunks { let records = records?; ... }`:
\* Err at the first failed file of the batch, else Ok(the state after the batch)
RECURSIVE FoldChunk(_, _, _)
FoldChunk(st, parsed, needs_project_grouping) ==
    IF parsed = << >> THEN Ok(st)
    ELSE IF ~Head(parsed).ok THEN Err
    ELSE FoldChunk(FoldRecords(st, Head(parsed).value, needs_project_grouping),
                   Tail(parsed), needs_project_grouping)

\* the model_breakdowns of a result entry: the map's entries in its iteration
\* order, without the synthetic marker, stably sorted by cost, highest first
SortedBreakdowns(breakdowns, order) ==
    LET names == SelectSeq(order, LAMBDA name : name # SYNTHETIC)
        model_breakdowns ==
            [ i \in 1..Len(names) |->
                [ model_name |-> names[i],
                  input_tokens |-> breakdowns[names[i]].input_tokens,
                  output_tokens |-> breakdowns[names[i]].output_tokens,
                  cache_creation_tokens |-> breakdowns[names[i]].cache_creation_tokens,
                  cache_read_tokens |-> breakdowns[names[i]].cache_read_tokens,
                  cost |-> breakdowns[names[i]].cost ] ]
    IN  StableSort(model_breakdowns,
                   [ i, j \in 1..Len(names) |->
                       model_breakdowns[i].cost > model_breakdowns[j].cost ])

\* the DailyUsage pushed for one (group_key, aggregate) of the map
DailyUsageOf(group_key, aggregate, order) ==
    LET split == SplitOnce(group_key, "NUL")
    IN  [ date |-> IF IsSome(split) THEN Unwrap(split)[1] ELSE group_key,
          input_tokens |-> aggregate.input_tokens,
          output_tokens |-> aggregate.output_tokens,
          cache_creation_tokens |-> aggregate.cache_creation_tokens,
          cache_read_tokens |-> aggregate.cache_read_tokens,
          total_cost |-> aggregate.total_cost,
          models_used |-> aggregate.models_used,
          model_breakdowns |-> SortedBreakdowns(aggregate.model_breakdowns, order),
          project |-> IF IsSome(split) THEN Some(Unwrap(split)[2]) ELSE None ]

\* the exact-match project filter over the date-filtered entries
ProjectFilter(filtered, project) ==
    IF IsSome(project)
    THEN SelectSeq(filtered, LAMBDA item : item.project = Some(Unwrap(project)))
    ELSE filtered

\* the tail of load_daily_usage_data: date filter, project filter, sort
FinalResults(entries, options) ==
    sort_by_date(
        ProjectFilter(
            filter_by_date_range(entries, "date", options.since, options.until),
            options.project),
        "date", options.order)

\* the orders in which a collection with the elements S can be iterated
Orders(S) ==
    { p \in [1..Cardinality(S) -> S] : \A x \in S : \E i \in 1..Cardinality(S) : p[i] = x }

NeedsProjectGrouping(options) == options.group_by_project \/ IsSome(options.project)

\* (rayon::current_num_threads() * 2).max(1)
BatchSize(num_threads) == IF num_threads * 2 >= 1 THEN num_threads * 2 ELSE 1

\* the current batch: a slice of sorted_files
Chunk(files, start, num_threads) ==
    SubSeq(files, start + 1,
           IF start + BatchSize(num_threads) < Len(files)
           THEN start + BatchSize(num_threads) ELSE Len(files))

-----------------------------------------------------------------------------
(* data_loader.rs: load_monthly_usage_data *)

RECURSIVE PushModels(_, _)
PushModels(aggregate, models) ==
    IF models = << >> THEN aggregate
    ELSE PushModels(push_model(aggregate, Head(models)), Tail(models))

RECURSIVE MergeBreakdowns(_, _)
MergeBreakdowns(breakdowns, list) ==
    IF list = << >> THEN breakdowns
    ELSE MergeBreakdowns(
             update_model_breakdowns(breakdowns, Head(list).model_name,
                 [ input_tokens |-> Head(list).input_tokens,
                   output_tokens |-> Head(list).output_tokens,
                   cache_creation_input_tokens |-> Head(list).cache_creation_tokens,
                   cache_read_input_tokens |-> Head(list).cache_read_tokens ],
                 Head(list).cost),
             Tail(list))

\* one iteration of `for entry in daily`
MonthlyFoldEntry(aggs, entry, needs_project_grouping) ==
    LET month == format_month(entry.date)
        key == IF needs_project_grouping
               THEN Unwrap(month) \o << "NUL" >> \o UnwrapOr(entry.project, UNKNOWN)
               ELSE Unwrap(month)
        aggregate == IF key \in DOMAIN aggs THEN aggs[key] ELSE AggregateDefault
        summed == [ aggregate EXCEPT
                      !.input_tokens = @ + entry.input_tokens,
                      !.output_tokens = @ + entry.output_tokens,
                      !.cache_creation_tokens = @ + entry.cache_creation_tokens,
                      !.cache_read_tokens = @ + entry.cache_read_tokens,
                      !.total_cost = @ + entry.total_cost ]
    IN  IF ~IsSome(month) THEN aggs
        ELSE MapPut(aggs, key,
                 [ PushModels(summed, entry.models_used) EXCEPT
                     !.model_breakdowns = MergeBreakdowns(@, entry.model_breakdowns) ])

RECURSIVE MonthlyFoldEntries(_, _, _)
MonthlyFoldEntries(aggs, entries, needs_project_grouping) ==
    IF entries = << >> THEN aggs
    ELSE MonthlyFoldEntries(MonthlyFoldEntry(aggs, Head(entries), needs_project_grouping),
                            Tail(entries), needs_project_grouping)

\* the MonthlyUsage pushed for one (group_key, aggregate) of the map
MonthlyUsageOf(group_key, aggregate, order) ==
    LET split == SplitOnce(group_key, "NUL")
    IN  [ month |-> IF IsSome(split) THEN Unwrap(split)[1] ELSE group_key,
          input_tokens |-> aggregate.input_tokens,
          output_tokens |-> aggregate.output_tokens,
          cache_creation_tokens |-> aggregate.cache_creation_tokens,
          cache_read_tokens |-> aggregate.cache_read_tokens,
          total_cost |-> aggregate.total_cost,
          models_used |-> aggregate.models_used,
          model_breakdowns |-> SortedBreakdowns(aggregate.model_breakdowns, order),
          project |-> IF IsSome(split) THEN Some(Unwrap(split)[2]) ELSE None ]

-----------------------------------------------------------------------------
(* data_loader.rs: the roots *)

\* dirs: the directories of the machine, by path:
\*   [is_dir |-> Path::is_dir, projects_is_dir |-> whether <path>/projects is a
\*    directory, canonical |-> Option: what Path::canonicalize returns, None for Err]

\* base.is_dir() && base.join("projects").is_dir()
IsValidBase(base, dirs) ==
    base \in DOMAIN dirs /\ dirs[base].is_dir /\ dirs[base].projects_is_dir

\* the loop body over the candidate bases: a valid base is pushed in canonical
\* form unless seen (seen holds what paths holds)
RECURSIVE PushValid(_, _, _)
PushValid(bases, paths, dirs) ==
    IF bases = << >> THEN paths
    ELSE LET base == Head(bases)
             normalized == UnwrapOr(dirs[base].canonical, base)
         IN  PushValid(Tail(bases),
                       IF IsValidBase(base, dirs) /\ normalized \notin Range(paths)
                       THEN Append(paths, normalized)
                       ELSE paths,
                       dirs)

\* the trimmed, non-empty entries of the trimmed list, as paths
ListedBases(env_paths) ==
    LET raw == Split(Trim(env_paths), ",")
        trimmed == [ i \in 1..Len(raw) |-> Trim(raw[i]) ]
        kept == SelectSeq(trimmed, LAMBDA entry : entry # << >>)
    IN  [ i \in 1..Len(kept) |-> PathBufFrom(kept[i]) ]

\* roots that are those of the default locations when the list names no valid one
get_claude_paths_FallsBackToDefaults(config_dir, defaults, dirs) ==
    IF IsSome(config_dir) /\ PushValid(ListedBases(Unwrap(config_dir)), << >>, dirs) # << >>
    THEN Ok(PushValid(ListedBases(Unwrap(config_dir)), << >>, dirs))
    ELSE IF PushValid(defaults, << >>, dirs) = << >> THEN Err
    ELSE Ok(PushValid(defaults, << >>, dirs))

\* config_dir: Option, the value of CLAUDE_CONFIG_DIR; defaults: the paths
\* default_claude_config_path() and <home>/.claude
get_claude_paths(config_dir, defaults, dirs) ==
    IF IsSome(config_dir) /\ Trim(Unwrap(config_dir)) # << >>
    THEN LET paths == PushValid(ListedBases(Unwrap(config_dir)), << >>, dirs)
         IN  IF paths # << >> THEN Ok(paths) ELSE Err
    ELSE LET paths == PushValid(defaults, << >>, dirs)
         IN  IF paths = << >> THEN Err ELSE Ok(paths)

\* the lists glob_usage_files may return: the files of the roots, root after root,
\* those of one root in the order of the walk; with_projects: the roots whose
\* projects directory is a directory
RECURSIVE glob_usage_files(_, _, _)
glob_usage_files(paths, fs, with_projects) ==
    IF paths = << >> THEN { << >> }
    ELSE { a \o b : a \in Orders(GlobMatches(Head(paths), fs, Head(paths) \in with_projects)),
                    b \in glob_usage_files(Tail(paths), fs, with_projects) }

-----------------------------------------------------------------------------
(* data_loader.rs: totals and groups of a list; cli.rs: the commands *)

UsageTotalsDefault ==
    [ input_tokens |-> 0, output_tokens |-> 0, cache_creation_tokens |-> 0,
      cache_read_tokens |-> 0, total_cost |-> 0 ]

\* calculate_totals_daily: the loop adds each entry to the totals
RECURSIVE calculate_totals_daily(_)
calculate_totals_daily(data) ==
    IF data = << >> THEN UsageTotalsDefault
    ELSE LET totals == calculate_totals_daily(SubSeq(data, 1, Len(data) - 1))
             item == data[Len(data)]
         IN  [ input_tokens |-> totals.input_tokens + item.input_tokens,
               output_tokens |-> totals.output_tokens + item.output_tokens,
               cache_creation_tokens |->
                   totals.cache_creation_tokens + item.cache_creation_tokens,
               cache_read_tokens |-> totals.cache_read_tokens + item.cache_read_tokens,
               total_cost |-> totals.total_cost + item.total_cost ]

\* calculate_totals_monthly
RECURSIVE calculate_totals_monthly(_)
calculate_totals_monthly(data) ==
    IF data = << >> THEN UsageTotalsDefault
    ELSE LET totals == calculate_totals_monthly(SubSeq(data, 1, Len(data) - 1))
             item == data[Len(data)]
         IN  [ input_tokens |-> totals.input_tokens + item.input_tokens,
               output_tokens |-> totals.output_tokens + item.output_tokens,
               cache_creation_tokens |->
                   totals.cache_creation_tokens + item.cache_creation_tokens,
               cache_read_tokens |-> totals.cache_read_tokens + item.cache_read_tokens,
               total_cost |-> totals.total_cost + item.total_cost ]

RECURSIVE group_daily_by_project_Reversed(_)
group_daily_by_project_Reversed(data) ==
    IF data = << >> THEN EmptyMap
    ELSE LET projects == group_daily_by_project_Reversed(SubSeq(data, 1, Len(data) - 1))
             item == data[Len(data)]
             project == UnwrapOr(item.project, UNKNOWN)
         IN  MapPut(projects, project,
                    << item >> \o (IF project \in DOMAIN projects THEN projects[project]
                                   ELSE << >>))

\* group_daily_by_project: projects.entry(project).or_default().push(item.clone())
\* for each item in turn
RECURSIVE group_daily_by_project(_)
group_daily_by_project(data) ==
    IF data = << >> THEN EmptyMap
    ELSE LET projects == group_daily_by_project(SubSeq(data, 1, Len(data) - 1))
             item == data[Len(data)]
             project == UnwrapOr(item.project, UNKNOWN)
         IN  MapPut(projects, project,
                    Append(IF project \in DOMAIN projects THEN projects[project]
                           ELSE << >>, item))

\* CostMode::from_str through parse_cost_mode
parse_cost_mode(value) ==
    IF value \in { "auto", "calculate", "display" } THEN Ok(value) ELSE Err

\* SortOrder::from_str through parse_sort_order
parse_sort_order(value) ==
    IF value \in { "asc", "desc" } THEN Ok(value) ELSE Err

common_options_Unchecked(args) == Ok(args)

\* common_options: the two `?` before the LoadOptions are built
common_options(args) ==
    IF ~parse_cost_mode(args.mode).ok THEN Err
    ELSE IF ~parse_sort_order(args.order).ok THEN Err
    ELSE Ok(args)

\* what run_daily prints for the Result of load_daily_usage_data: nothing on
\* an error, the notice of an empty list, or else the entries (by project when
\* asked to and some entry has a project) and their totals
run_daily(loaded, instances) ==
    IF ~loaded.ok THEN None
    ELSE IF loaded.value = << >> THEN Some([ kind |-> "empty" ])
    ELSE Some([ kind |-> "daily",
                projects |-> IF instances
                                /\ \E i \in 1..Len(loaded.value) :
                                       IsSome(loaded.value[i].project)
                             THEN Some(group_daily_by_project(loaded.value))
                             ELSE None,
                entries |-> loaded.value,
                totals |-> calculate_totals_daily(loaded.value) ])

\* what run_monthly prints for the Result of load_monthly_usage_data
run_monthly(loaded) ==
    IF ~loaded.ok THEN None
    ELSE IF loaded.value = << >> THEN Some([ kind |-> "empty" ])
    ELSE Some([ kind |-> "monthly",
                entries |-> loaded.value,
                totals |-> calculate_totals_monthly(loaded.value) ])

-----------------------------------------------------------------------------
(* The state machine: one invocation of the command, then the same once more *)

\* the roots of an invocation: the path of the options, or else get_claude_paths()
ClaudePaths(e) ==
    IF IsSome(e.options.claude_path) THEN Ok(<< Unwrap(e.options.claude_path) >>)
    ELSE get_claude_paths(e.config_dir, e.defaults, e.dirs)

\* the roots whose projects directory is a directory
WithProjects(e) ==
    { base \in Range(ClaudePaths(e).value) :
        IF e.options.claude_path = Some(base) THEN e.projects_is_dir
        ELSE base \in DOMAIN e.dirs /\ e.dirs[base].projects_is_dir }

\* the locals of load_daily_usage_data before its first statement
Fresh ==
    /\ pc = "start"
    /\ file_list = << >>
    /\ sorted_files = << >>
    /\ chunk_start = 0
    /\ parsed_chunks = << >>
    /\ processed_hashes = {}
    /\ aggregates = EmptyMap
    /\ results = << >>
    /\ daily = None
    /\ outcome = None
    /\ folded = << >>

\* load_daily_usage_data returns r: its locals are dropped
ReturnsDaily(r) ==
    /\ daily' = Some(r)
    /\ pc' = "daily_returned"
    /\ file_list' = << >>
    /\ sorted_files' = << >>
    /\ chunk_start' = 0
    /\ parsed_chunks' = << >>
    /\ processed_hashes' = {}
    /\ aggregates' = EmptyMap
    /\ results' = << >>

\* an error where there is no file to read
NoFilesResultErr == Err

\* what the two early returns of load_daily_usage_data return
NoFilesResult == Ok(<< >>)

\* run_daily, run_monthly: common_options fails and `?` returns its error
InvalidOption ==
    /\ pc = "start"
    /\ ~common_options(env.options).ok
    /\ outcome' = Some(Err)
    /\ pc' = "done"
    /\ UNCHANGED << env, scan_retries, claude_paths, report, run, first, file_list, sorted_files,
                    chunk_start, parsed_chunks, processed_hashes, aggregates, results,
                    daily, folded >>

\* the roots, glob_usage_files, the project filter on the file list, the early
\* returns
Discover ==
    /\ pc = "start"
    /\ common_options(env.options).ok
    /\ claude_paths' = Some(ClaudePaths(env))
    /\ IF ~ClaudePaths(env).ok
       THEN ReturnsDaily(Err)
       ELSE \E all_files \in glob_usage_files(ClaudePaths(env).value, env.fs,
                                              WithProjects(env)) :
              LET retained == IF IsSome(env.options.project)
                              THEN SelectSeq(all_files, LAMBDA f :
                                       extract_project_from_path(env.fs[f].path)
                                           = Unwrap(env.options.project))
                              ELSE all_files
              IN  IF all_files = << >> \/ retained = << >>
                  THEN ReturnsDaily(NoFilesResult)
                  ELSE /\ file_list' = retained
                       /\ pc' = "sort"
                       /\ UNCHANGED << sorted_files, chunk_start, parsed_chunks,
                                       processed_hashes, aggregates, results, daily >>
    /\ UNCHANGED << env, scan_retries, report, run, first, outcome, folded >>

\* a worker of sort_files_by_timestamp is in get_earliest_timestamp on a file
\* whose read fails on every attempt: read_line returns Err and the loop continues
ScanRetry ==
    /\ pc = "sort"
    /\ \E f \in Range(file_list) : ~ScanTerminates(env.fs[f])
    /\ scan_retries' = (scan_retries + 1) % 2
    /\ UNCHANGED << env, claude_paths, report, run, first, pc, file_list, sorted_files,
                    chunk_start, parsed_chunks, processed_hashes, aggregates, results,
                    daily, outcome, folded >>

\* sort_files_by_timestamp, once every worker has returned; the first batch starts
SortFiles ==
    /\ pc = "sort"
    /\ \A f \in Range(file_list) : ScanTerminates(env.fs[f])
    /\ sorted_files' = sort_files_by_timestamp(file_list, env.fs)
    /\ file_list' = << >>
    /\ chunk_start' = 0
    /\ parsed_chunks' = [ i \in 1..Len(Chunk(sorted_files', 0, env.num_threads)) |-> None ]
    /\ pc' = "parse"
    /\ UNCHANGED << env, scan_retries, claude_paths, report, run, first, processed_hashes, aggregates, results, daily,
                    outcome, folded >>

\* a worker that records the keys of its file in the seen-set itself
ParseWorker_SharedSeenSet(i) ==
    /\ pc = "parse"
    /\ i \in 1..Len(parsed_chunks)
    /\ parsed_chunks[i] = None
    /\ LET f == Chunk(sorted_files, chunk_start, env.num_threads)[i]
           parsed == parse_file_records(f, env.fs[f],
                         extract_project_from_path(env.fs[f].path), env.options,
                         IF env.options.mode = "display" THEN None
                         ELSE Some(env.dataset_order),
                         env.local_offset)
       IN  /\ parsed_chunks' = [ parsed_chunks EXCEPT ![i] = Some(parsed) ]
           /\ processed_hashes' =
                  processed_hashes
                  \cup (IF parsed.ok
                        THEN { Unwrap(parsed.value[k].unique_hash) :
                                 k \in { k \in 1..Len(parsed.value) :
                                           IsSome(parsed.value[k].unique_hash) } }
                        ELSE {})
    /\ UNCHANGED << env, scan_retries, claude_paths, report, run, first, pc, file_list, sorted_files,
                    chunk_start, aggregates, results, daily, outcome, folded >>

\* one worker of chunk.par_iter().map(parse_file_records): the file at position i
ParseWorker(i) ==
    /\ pc = "parse"
    /\ i \in 1..Len(parsed_chunks)
    /\ parsed_chunks[i] = None
    /\ LET f == Chunk(sorted_files, chunk_start, env.num_threads)[i]
       IN  parsed_chunks' = [ parsed_chunks EXCEPT ![i] =
               Some(parse_file_records(f, env.fs[f],
                        extract_project_from_path(env.fs[f].path), env.options,
                        IF env.options.mode = "display" THEN None
                        ELSE Some(env.dataset_order),
                        env.local_offset)) ]
    /\ UNCHANGED << env, scan_retries, claude_paths, report, run, first, pc, file_list, sorted_files, chunk_start,
                    processed_hashes, aggregates, results, daily, outcome, folded >>

\* the fold of the batch, once collect() has every worker's result
Fold ==
    /\ pc = "parse"
    /\ \A i \in 1..Len(parsed_chunks) : parsed_chunks[i] # None
    /\ LET after == FoldChunk([ hashes |-> processed_hashes, aggs |-> aggregates,
                                folded |-> folded ],
                              [ i \in 1..Len(parsed_chunks) |-> Unwrap(parsed_chunks[i]) ],
                              NeedsProjectGrouping(env.options))
           next_start == chunk_start + Len(parsed_chunks)
       IN  IF ~after.ok
           THEN /\ ReturnsDaily(Err)
                /\ folded' = << >>
           ELSE /\ processed_hashes' = after.value.hashes
                /\ aggregates' = after.value.aggs
                /\ folded' = after.value.folded
                /\ chunk_start' = next_start
                /\ parsed_chunks' =
                       [ i \in 1..Len(Chunk(sorted_files, next_start, env.num_threads))
                           |-> None ]
                /\ pc' = IF next_start < Len(sorted_files) THEN "parse" ELSE "finalize"
                /\ UNCHANGED << file_list, sorted_files, results, daily >>
    /\ UNCHANGED << env, scan_retries, claude_paths, report, run, first, outcome >>

\* one iteration of `for (group_key, aggregate) in aggregates`
FinalizeBucket ==
    /\ pc = "finalize"
    /\ \E group_key \in DOMAIN aggregates :
         \E order \in Orders(DOMAIN aggregates[group_key].model_breakdowns) :
            /\ results' = Append(results,
                                 DailyUsageOf(group_key, aggregates[group_key], order))
            /\ aggregates' = MapRemove(aggregates, group_key)
    /\ UNCHANGED << env, scan_retries, claude_paths, report, run, first, pc, file_list, sorted_files, chunk_start,
                    parsed_chunks, processed_hashes, daily, outcome, folded >>

\* the date filter, the project filter, the sort and the return
FinishDaily ==
    /\ pc = "finalize"
    /\ DOMAIN aggregates = {}
    /\ ReturnsDaily(Ok(FinalResults(results, env.options)))
    /\ UNCHANGED << env, scan_retries, claude_paths, report, run, first, outcome, folded >>

\* run_daily has the Result of load_daily_usage_data and prints its report
ReturnDaily ==
    /\ pc = "daily_returned"
    /\ env.command = "daily"
    /\ outcome' = daily
    /\ report' = run_daily(Unwrap(daily), env.options.group_by_project)
    /\ pc' = "done"
    /\ UNCHANGED << env, scan_retries, claude_paths, run, first, file_list, sorted_files, chunk_start, parsed_chunks,
                    processed_hashes, aggregates, results, daily, folded >>

\* load_monthly_usage_data after its call of load_daily_usage_data: `?`, the
\* early return on an empty list, the fold of the daily entries into months
MonthlyFold ==
    /\ pc = "daily_returned"
    /\ env.command = "monthly"
    /\ IF ~Unwrap(daily).ok \/ Unwrap(daily).value = << >>
       THEN /\ outcome' = daily
            /\ report' = run_monthly(Unwrap(daily))
            /\ pc' = "done"
            /\ UNCHANGED aggregates
       ELSE /\ aggregates' = MonthlyFoldEntries(EmptyMap, Unwrap(daily).value,
                                                NeedsProjectGrouping(env.options))
            /\ pc' = "monthly_finalize"
            /\ UNCHANGED << outcome, report >>
    /\ UNCHANGED << env, scan_retries, claude_paths, run, first, file_list, sorted_files, chunk_start, parsed_chunks,
                    processed_hashes, results, daily, folded >>

\* one iteration of `for (group_key, aggregate) in aggregates` of the monthly pass
MonthlyFinalizeBucket ==
    /\ pc = "monthly_finalize"
    /\ \E group_key \in DOMAIN aggregates :
         \E order \in Orders(DOMAIN aggregates[group_key].model_breakdowns) :
            /\ results' = Append(results,
                                 MonthlyUsageOf(group_key, aggregates[group_key], order))
            /\ aggregates' = MapRemove(aggregates, group_key)
    /\ UNCHANGED << env, scan_retries, claude_paths, report, run, first, pc, file_list, sorted_files, chunk_start,
                    parsed_chunks, processed_hashes, daily, outcome, folded >>

\* the sort of the monthly entries and the return
FinishMonthly ==
    /\ pc = "monthly_finalize"
    /\ DOMAIN aggregates = {}
    /\ outcome' = Some(Ok(sort_by_date(results, "month", env.options.order)))
    /\ report' = run_monthly(Ok(sort_by_date(results, "month", env.options.order)))
    /\ results' = << >>
    /\ pc' = "done"
    /\ UNCHANGED << env, scan_retries, claude_paths, run, first, file_list, sorted_files, chunk_start, parsed_chunks,
                    processed_hashes, aggregates, daily, folded >>

\* the same command is invoked again on the same files with the same options
Rerun ==
    /\ pc = "done"
    /\ run = 1
    /\ run' = 2
    /\ first' = outcome
    /\ pc' = "start"
    /\ outcome' = None
    /\ daily' = None
    /\ folded' = << >>
    /\ claude_paths' = None
    /\ report' = None
    /\ UNCHANGED << env, scan_retries, file_list, sorted_files, chunk_start, parsed_chunks,
                    processed_hashes, aggregates, results >>

Next ==
    \/ InvalidOption
    \/ Discover
    \/ ScanRetry
    \/ SortFiles
    \/ \E i \in 1..Len(parsed_chunks) : ParseWorker(i)
    \/ Fold
    \/ FinalizeBucket
    \/ FinishDaily
    \/ ReturnDaily
    \/ MonthlyFold
    \/ MonthlyFinalizeBucket
    \/ FinishMonthly
    \/ Rerun

-----------------------------------------------------------------------------
(* Inputs *)

MaxFiles == 3

MaxLines == 2

MaxThreads == 1

\* hours since 2024-01-01T00:00Z of the given hour of the given day of 2024
Instant(day_of_year, hour) == (day_of_year - 1) * 24 + hour

Jan30 == Instant(30, 12)

Jan31 == Instant(31, 20)

Feb01 == Instant(32, 12)

SeqsUpTo(S, n) == UNION { [1..k -> S] : k \in 1..n }

\* a line that decodes as UsageData with a message and a usage payload
Entry(utc, id, request_id, model, input, output, cache_creation, cache_read, cost_usd) ==
    [ form |-> "json",
      data |-> Some([
        timestamp |-> Some([ parses |-> TRUE, utc |-> utc ]),
        message |-> Some([
            usage |-> Some([ input_tokens |-> Some(input),
                             output_tokens |-> Some(output),
                             cache_creation_input_tokens |-> cache_creation,
                             cache_read_input_tokens |-> cache_read ]),
            model |-> model,
            id |-> id ]),
        cost_usd |-> cost_usd,
        request_id |-> request_id,
        request |-> None ]) ]

Malformed == [ form |-> "malformed", data |-> None ]

Blank == [ form |-> "blank", data |-> None ]

InvalidUtf8 == [ form |-> "invalid_utf8", data |-> None ]

\* a position of the file at which every read fails (an I/O error of the device)
ReadError == [ form |-> "read_error", data |-> None ]

\* the lines a parser must skip: each lacks one thing a record needs
NoMessage(line) == [ line EXCEPT !.data[1].message = None ]

NoUsage(line) == [ line EXCEPT !.data[1].message[1].usage = None ]

NoInput(line) == [ line EXCEPT !.data[1].message[1].usage[1].input_tokens = None ]

NoOutput(line) == [ line EXCEPT !.data[1].message[1].usage[1].output_tokens = None ]

NoTimestamp(line) == [ line EXCEPT !.data[1].timestamp = None ]

BadTimestamp(line) == [ line EXCEPT !.data[1].timestamp[1].parses = FALSE ]

Root == << << "/" >>, << "d" >> >>

ProjectName(n) == << "p" >> \o PadNum(n, 1)

FileName(n) == << "f" >> \o PadNum(n, 1) \o << "." >> \o JSONL

\* the n-th file of the tree, in project ProjectName(p)
FileAt(n, p, lines) ==
    [ path |-> Root \o << CLAUDE_PROJECTS_DIR_NAME, ProjectName(p), FileName(n) >>,
      readable |-> TRUE,
      lines |-> lines ]

MsgId == << "m", "1" >>

ReqId == << "r", "1" >>

ModelA == << "A" >>

ModelB == << "B" >>

DefaultOptions ==
    [ claude_path |-> Some(Root), mode |-> "display", order |-> "desc",
      group_by_project |-> FALSE, project |-> None, since |-> None, until |-> None,
      timezone |-> Some("UTC") ]

\* an input: a file tree, the options, the command, and the machine it runs on
Input(fs, options, command) ==
    { [ fs |-> fs, projects_is_dir |-> TRUE, options |-> options, command |-> command,
        config_dir |-> None, defaults |-> << >>, dirs |-> << >>,
        num_threads |-> n, local_offset |-> 0,
        dataset_order |-> << << "c", "l", "a", "u", "d", "e", "-", "B" >>,
                             << "g", "p", "t", "-", "5" >> >> ] : n \in 1..MaxThreads }

\* Overlapping files: every record has its own token counts; a record has the
\* identity key m1:r1 or none, and one of two timestamps.
DedupLine(f, l, keyed, utc) ==
    Entry(utc, IF keyed THEN Some(MsgId) ELSE None, IF keyed THEN Some(ReqId) ELSE None,
          None, 10 * f + l, l, Some(f), IF keyed THEN Some(1) ELSE None, Some(f + l))

DedupShapes == BOOLEAN \X {Jan30, Jan31}

DedupFile(f, shapes) ==
    FileAt(f, 1, [ l \in 1..Len(shapes) |-> DedupLine(f, l, shapes[l][1], shapes[l][2]) ])

InputsDedup ==
    UNION { Input([ f \in 1..Len(files) |-> DedupFile(f, files[f]) ], DefaultOptions, "daily") :
            files \in SeqsUpTo([1..1 -> DedupShapes], MaxFiles)
                      \cup { << a, << b >> >> : a \in SeqsUpTo(DedupShapes, MaxLines),
                                               b \in DedupShapes } }

\* Projects: one record per file, all on one date at different hours, the files
\* spread over two projects; models A and B cost the same.
ProjectsFile(f, p) ==
    FileAt(f, p, << Entry(Jan30 + f, None, None, Some(IF f % 2 = 1 THEN ModelA ELSE ModelB),
                          f, 1, None, None, Some(5)) >>)

InputsProjects ==
    UNION { Input([ f \in 1..Len(ps) |-> ProjectsFile(f, ps[f]) ],
                  [ DefaultOptions EXCEPT !.group_by_project = g, !.project = p ], c) :
            ps \in SeqsUpTo({1, 2}, MaxFiles),
            g \in BOOLEAN,
            p \in {None, Some(ProjectName(1)), Some(ProjectName(3))},
            c \in {"daily", "monthly"} }

\* Parsing: one file of usable and unusable lines, under several zones.
Usable == Entry(Jan31, Some(MsgId), Some(ReqId), Some(ModelA), 5, 3, None, Some(2), Some(7))

ParseLines ==
    { Usable, Malformed, Blank, NoMessage(Usable), NoUsage(Usable), NoInput(Usable),
      NoOutput(Usable), NoTimestamp(Usable), BadTimestamp(Usable) }

InputsParse ==
    UNION { Input(<< FileAt(1, 1, lines) >>, [ DefaultOptions EXCEPT !.timezone = tz ],
                  "daily") :
            lines \in SeqsUpTo(ParseLines, MaxLines),
            tz \in {None, Some("UTC"), Some("Asia/Tokyo"), Some("Mars/Phobos")} }

\* I/O: files that cannot be opened, files with a line that cannot be read, files
\* without a timestamp, among files that are fine.
Plain(f, utc) == Entry(utc, None, None, Some(ModelA), f, 1, None, None, Some(1))

IoFiles(f) ==
    { FileAt(f, 1, << Plain(f, Jan30) >>),
      FileAt(f, 1, << Plain(f, Jan31) >>),
      [ FileAt(f, 1, << Plain(f, Jan30) >>) EXCEPT !.readable = FALSE ],
      FileAt(f, 1, << Plain(f, Jan30), InvalidUtf8 >>),
      FileAt(f, 1, << Malformed >>) }

InputsIo ==
    UNION { Input(fs, DefaultOptions, c) :
            fs \in UNION { { fs \in [1..k -> UNION { IoFiles(f) : f \in 1..k }] :
                               \A f \in 1..k : fs[f] \in IoFiles(f) } : k \in 1..MaxFiles },
            c \in {"daily", "monthly"} }

\* Nothing to report: no projects directory, no file, no .jsonl file, no file of
\* the project asked for, no usable line, no day in the range.
InputsEmpty ==
    UNION { Input(fs, o, c) :
            fs \in { << >>,
                     << [ FileAt(1, 1, << Plain(1, Jan30) >>) EXCEPT
                            !.path = Root \o << << "o" >>, ProjectName(1), FileName(1) >> ] >>,
                     << [ FileAt(1, 1, << Plain(1, Jan30) >>) EXCEPT
                            !.path[5] = << "f", "1", ".", "t", "x", "t" >> ] >>,
                     << [ FileAt(1, 1, << Plain(1, Jan30) >>) EXCEPT
                            !.path[5] = << ".", "j", "s", "o", "n", "l" >> ] >>,
                     << FileAt(1, 1, << Malformed, NoOutput(Usable) >>) >>,
                     << FileAt(1, 1, << >>) >>,
                     << FileAt(1, 1, << Plain(1, Jan30) >>) >> },
            o \in { DefaultOptions,
                    [ DefaultOptions EXCEPT !.project = Some(ProjectName(3)) ],
                    [ DefaultOptions EXCEPT
                        !.since = Some(<< "2", "0", "2", "4", "0", "2", "0", "1" >>) ] },
            c \in {"daily", "monthly"} }
    \cup
    UNION { { [ i EXCEPT !.projects_is_dir = FALSE ] : i \in Input(fs, DefaultOptions, c) } :
            fs \in { << >>,
                     << [ FileAt(1, 1, << >>) EXCEPT
                            !.path = Root \o << CLAUDE_PROJECTS_DIR_NAME >> ] >> },
            c \in {"daily", "monthly"} }

\* Dates: one record per file on one of three consecutive days around a month's
\* end, a range that starts or ends on the middle day, both orders, both commands.
Day31 == << "2", "0", "2", "4", "0", "1", "3", "1" >>

InputsDates ==
    UNION { Input([ f \in 1..Len(days) |-> FileAt(f, 1, << Plain(f, days[f]) >>) ],
                  [ DefaultOptions EXCEPT !.since = s, !.until = u, !.order = o ], c) :
            days \in SeqsUpTo({Jan30, Jan31, Feb01}, MaxFiles),
            s \in {None, Some(Day31)},
            u \in {None, Some(Day31)},
            o \in {"asc", "desc"},
            c \in {"daily", "monthly"} }

\* Models: one record per file on one day, with model A, B, the synthetic marker
\* or none.
ModelsFile(f, model) ==
    FileAt(f, 1, << Entry(Jan30, None, None, model, f, 2 * f, Some(1), None, Some(f)) >>)

InputsModels ==
    UNION { Input([ f \in 1..Len(ms) |-> ModelsFile(f, ms[f]) ], DefaultOptions, c) :
            ms \in SeqsUpTo({None, Some(ModelA), Some(ModelB), Some(SYNTHETIC)}, MaxFiles),
            c \in {"daily", "monthly"} }

\* Cost modes: one record with or without an embedded cost, of a model the dataset
\* has, has under a prefix, has under an alias, does not have, or of no model.
ClaudeB == << "c", "l", "a", "u", "d", "e", "-", "B" >>

Gpt5 == << "g", "p", "t", "-", "5" >>

Gpt5Codex == << "g", "p", "t", "-", "5", "-", "c", "o", "d", "e", "x" >>

OpenaiGpt5Codex == << "o", "p", "e", "n", "a", "i", "/" >> \o Gpt5Codex

NoSuchModel == << "z", "z" >>

InputsModes ==
    UNION { Input(<< FileAt(1, 1, << Entry(Jan30, None, None, model, 100, 10, Some(4),
                                           Some(2), cost_usd) >>) >>,
                  [ DefaultOptions EXCEPT !.mode = mode ], "daily") :
            model \in { None, Some(ClaudeB), Some(ModelB), Some(Gpt5Codex),
                        Some(NoSuchModel) },
            cost_usd \in { None, Some(7) },
            mode \in { "display", "calculate", "auto" } }

\* Tiered pricing: one record whose four counts lie at, above and below the
\* threshold, of a model with its own pricing entry, in calculate mode.
TierCounts == { 0, 7, DEFAULT_TIERED_THRESHOLD, DEFAULT_TIERED_THRESHOLD + 1 }

AllKeysOrder == << ClaudeB, Gpt5, OpenaiGpt5Codex >>

InputsTiers ==
    UNION { { [ i EXCEPT !.dataset_order = AllKeysOrder ] :
              i \in Input(<< FileAt(1, 1, << Entry(Jan30, None, None, Some(model), input,
                                                 output, Some(cache_creation),
                                                 Some(cache_read), None) >>) >>,
                          [ DefaultOptions EXCEPT !.mode = "calculate" ], "daily") } :
            model \in { ClaudeB, Gpt5, OpenaiGpt5Codex },
            input \in TierCounts, output \in TierCounts,
            cache_creation \in TierCounts, cache_read \in TierCounts }

\* Roots: no path in the options; the list of CLAUDE_CONFIG_DIR unset, blank or
\* naming directories that are valid, lack the projects directory, do not exist,
\* or are a second name of a valid one; the default locations valid or not.
DirPath(name) == << << "/" >>, << name >> >>

\* a directory that canonicalize resolves to target
Directory(projects_is_dir, target) ==
    [ is_dir |-> TRUE, projects_is_dir |-> projects_is_dir, canonical |-> target ]

\* /d and /e are roots (canonicalize fails on /e), /l is a link to /d, /n has no
\* projects directory, /x does not exist; /c and /h are the default locations:
\* /c is a root or does not exist, /h is a root, a link to /c or does not exist
DirsOf(c_exists, h_kind) ==
    [ base \in { DirPath("d"), DirPath("e"), DirPath("l"), DirPath("n") }
               \cup (IF c_exists THEN { DirPath("c") } ELSE {})
               \cup (IF h_kind # "absent" THEN { DirPath("h") } ELSE {}) |->
        CASE base = DirPath("d") -> Directory(TRUE, Some(DirPath("d")))
          [] base = DirPath("e") -> Directory(TRUE, None)
          [] base = DirPath("l") -> Directory(TRUE, Some(DirPath("d")))
          [] base = DirPath("n") -> Directory(FALSE, Some(DirPath("n")))
          [] base = DirPath("c") -> Directory(TRUE, Some(DirPath("c")))
          [] base = DirPath("h") ->
               Directory(TRUE, Some(DirPath(IF h_kind = "link" THEN "c" ELSE "h"))) ]

ConfigDirValues ==
    { None, Some(<< >>), Some(<< " " >>), Some(<< "," >>),
      Some(<< "/", "d" >>), Some(<< "/", "d", "/" >>),
      Some(<< "/", "d", ",", "/", "e" >>),
      Some(<< " ", "/", "e", " ", ",", " ", "/", "d", " " >>),
      Some(<< "/", "d", ",", "/", "l" >>), Some(<< "/", "l", ",", "/", "d" >>),
      Some(<< "/", "x" >>), Some(<< "/", "n", ",", "/", "x" >>),
      Some(<< "/", "d", ",", ",", "/", "x" >>) }

DefaultWorlds ==
    { world \in BOOLEAN \X { "absent", "root", "link" } : world[2] = "link" => world[1] }

\* a file with one record under each of the roots /d, /e and /c
RootsFile(f, name) ==
    [ FileAt(f, f, << Plain(f, Jan30) >>) EXCEPT
        !.path = DirPath(name) \o << CLAUDE_PROJECTS_DIR_NAME, ProjectName(f), FileName(f) >> ]

InputsPaths ==
    UNION { { [ i EXCEPT !.config_dir = config_dir,
                         !.defaults = << DirPath("c"), DirPath("h") >>,
                         !.dirs = DirsOf(world[1], world[2]) ] :
              i \in Input(<< RootsFile(1, "d"), RootsFile(2, "e"), RootsFile(3, "c") >>,
                          [ DefaultOptions EXCEPT !.claude_path = None ], "daily") } :
            config_dir \in ConfigDirValues,
            world \in DefaultWorlds }

\* Identity keys: one file of two records that are the same but for the message
\* id, the top-level request id and the request object, each present or absent.
ReqId2 == << "r", "2" >>

KeyShapes ==
    { None, Some(MsgId) }
    \X { None, Some(ReqId) }
    \X { None, Some([ id |-> None ]), Some([ id |-> Some(ReqId) ]), Some([ id |-> Some(ReqId2) ]) }

KeyLine(shape) ==
    [ Entry(Jan30, shape[1], shape[2], Some(ModelA), 5, 3, None, None, Some(2)) EXCEPT
        !.data[1].request = shape[3] ]

InputsKeys ==
    UNION { Input(<< FileAt(1, 1, << KeyLine(a), KeyLine(b) >>) >>, DefaultOptions, "daily") :
            a \in KeyShapes, b \in KeyShapes }

\* Lookup: one record in calculate mode, of a model named as a key, as a key less
\* its prefix, as the aliased name, as a part of a key, as a key and more, or as
\* nothing the dataset has; the dataset holds any of the three entries in any
\* iteration order.
DatasetOrders ==
    UNION { Orders(keys) : keys \in SUBSET { ClaudeB, Gpt5, OpenaiGpt5Codex } }

LookupNames ==
    { ClaudeB, ModelB, Gpt5Codex, << "c", "o", "d", "e", "x" >>, Gpt5 \o << "x" >>,
      NoSuchModel }

InputsLookup ==
    UNION { { [ i EXCEPT !.dataset_order = order ] :
              i \in Input(<< FileAt(1, 1, << Entry(Jan30, None, None, Some(model), 100, 10,
                                                 Some(4), Some(2), None) >>) >>,
                          [ DefaultOptions EXCEPT !.mode = "calculate" ], "daily") } :
            model \in LookupNames, order \in DatasetOrders }

\* The command line: the --mode and --order strings as typed, valid or not, with
\* the roots taken from the environment.
ModeArgs == { "display", "Display", "calc", "" }

OrderArgs == { "asc", "desc", "ascending", "" }

InputsArgs ==
    UNION { { [ i EXCEPT !.config_dir = Some(<< "/", "d" >>),
                         !.dirs = DirsOf(FALSE, "absent") ] :
              i \in Input(<< RootsFile(1, "d") >>,
                          [ DefaultOptions EXCEPT !.claude_path = None, !.mode = mode,
                                                  !.order = order ], c) } :
            mode \in ModeArgs, order \in OrderArgs, c \in {"daily", "monthly"} }

\* Read errors: a line that is not UTF-8 (the read fails once and the reader
\* moves on) and a position at which every read fails.
InputsReadErrors ==
    UNION { Input(fs, DefaultOptions, c) :
            fs \in { << FileAt(1, 1, << InvalidUtf8, Plain(1, Jan30) >>) >>,
                     << FileAt(1, 1, << Plain(1, Jan30), ReadError >>) >>,
                     << FileAt(1, 1, << ReadError >>) >>,
                     << FileAt(1, 1, << Plain(1, Jan30) >>),
                        FileAt(2, 1, << Plain(2, Jan31), ReadError >>) >> },
            c \in {"daily", "monthly"} }

\* Batches: the three overlapping files on a machine with one more thread, whose
\* batch holds them all.
InputsBatches ==
    { [ i EXCEPT !.num_threads = MaxThreads + 1 ] :
        i \in { i \in InputsDedup : Len(i.fs) = 3 } }

\* The project filter: two files of one record each, each in project p1 or p2,
\* the record with the identity key m1:r1 or without key, the second file an hour
\* later than the first; with and without filter, with and without grouping.
FilterFile(f, p, keyed) == FileAt(f, p, << DedupLine(f, 1, keyed, Jan30 + f) >>)

InputsFilter ==
    UNION { Input([ f \in 1..2 |-> FilterFile(f, shape[f][1], shape[f][2]) ],
                  [ DefaultOptions EXCEPT !.group_by_project = g, !.project = p ], "daily") :
            shape \in [1..2 -> {1, 2} \X BOOLEAN],
            g \in BOOLEAN,
            p \in {None, Some(ProjectName(1))} }

\* Sort orders: three files of one record each, on 30 and 31 January and on
\* 1 February, each of model A or B, returned in either order.
OrdersFile(f, utc, model) ==
    FileAt(f, 1, << Entry(utc, None, None, Some(model), f, 1, None, None, Some(f)) >>)

InputsOrders ==
    UNION { Input(<< OrdersFile(1, Jan30, models[1]), OrdersFile(2, Jan31, models[2]),
                     OrdersFile(3, Feb01, models[3]) >>,
                  [ DefaultOptions EXCEPT !.order = order ], c) :
            models \in [1..3 -> {ModelA, ModelB}],
            order \in {"asc", "desc"},
            c \in {"daily", "monthly"} }

\* Ids with a colon: one file of two records whose message id is a or a:b and
\* whose request id is c or b:c.
ColonIds == { << "a" >>, << "a", ":", "b" >> } \X { << "c" >>, << "b", ":", "c" >> }

InputsColons ==
    UNION { Input(<< FileAt(1, 1, << Entry(Jan30, Some(x[1]), Some(x[2]), Some(ModelA),
                                           5, 3, None, None, Some(2)),
                                     Entry(Jan31, Some(y[1]), Some(y[2]), Some(ModelA),
                                           7, 1, None, None, Some(4)) >>) >>,
                  DefaultOptions, "daily") :
            x \in ColonIds, y \in ColonIds }

\* Roots: one file of one record in project p1, under the root /d or under the
\* root /projects/d, whose own path has a component named projects.
ProjectsRoot == << << "/" >>, CLAUDE_PROJECTS_DIR_NAME, << "d" >> >>

InputsRoots ==
    UNION { Input(<< [ FileAt(1, 1, << Plain(1, Jan30) >>) EXCEPT
                         !.path = base \o << CLAUDE_PROJECTS_DIR_NAME, ProjectName(1),
                                              FileName(1) >> ] >>,
                  [ DefaultOptions EXCEPT !.claude_path = Some(base),
                                          !.group_by_project = g ], "daily") :
            base \in { Root, ProjectsRoot }, g \in BOOLEAN }

Inputs ==
    InputsDedup \cup InputsProjects \cup InputsParse \cup InputsIo \cup InputsEmpty
    \cup InputsDates \cup InputsModels \cup InputsModes
    \cup InputsTiers \cup InputsPaths \cup InputsKeys \cup InputsLookup
    \cup InputsArgs \cup InputsReadErrors \cup InputsBatches
    \cup InputsFilter \cup InputsOrders \cup InputsColons
    \cup InputsRoots

Init ==
    /\ env \in Inputs
    /\ run = 1
    /\ first = None
    /\ claude_paths = None
    /\ report = None
    /\ scan_retries = 0
    /\ Fresh

Spec == Init /\ [][Next]_vars

\* The command on the inputs of the command line and of the read errors, run by
\* a process that is scheduled: a step that can be taken is taken in the end.
InitFair ==
    /\ env \in InputsArgs \cup InputsReadErrors \cup InputsEmpty
    /\ run = 1
    /\ first = None
    /\ claude_paths = None
    /\ report = None
    /\ scan_retries = 0
    /\ Fresh

SpecFair == InitFair /\ [][Next]_vars /\ WF_vars(Next)

-----------------------------------------------------------------------------
(* group_daily_by_project and calculate_totals_daily applied to any list *)

MaxEntries == 3

\* an entry of the given day with the given count and cost, of a project or of none
GroupEntry(day, n, project) ==
    [ date |-> day, input_tokens |-> n, output_tokens |-> 2 * n,
      cache_creation_tokens |-> 0, cache_read_tokens |-> n, total_cost |-> 3 * n,
      models_used |-> << >>, model_breakdowns |-> << >>, project |-> project ]

GroupEntries ==
    { GroupEntry(<< "2", "0", "2", "4", "-", "0", "1", "-", "3", "0" >>, n, project) :
        n \in 1..2,
        project \in { None, Some(UNKNOWN), Some(ProjectName(1)), Some(ProjectName(2)) } }

InitGroup ==
    /\ env \in Input(<< >>, [ DefaultOptions EXCEPT !.group_by_project = TRUE ], "daily")
    /\ run = 1
    /\ first = None
    /\ claude_paths = None
    /\ report = None
    /\ scan_retries = 0
    /\ file_list = << >>
    /\ sorted_files = << >>
    /\ chunk_start = 0
    /\ parsed_chunks = << >>
    /\ processed_hashes = {}
    /\ aggregates = EmptyMap
    /\ results = << >>
    /\ outcome = None
    /\ folded = << >>
    /\ pc = "group"
    /\ daily \in { Some(Ok(data)) : data \in SeqsUpTo(GroupEntries, MaxEntries) }

\* a caller groups the list it holds and totals it
GroupDaily ==
    /\ pc = "group"
    /\ report' = Some([ kind |-> "groups",
                        projects |-> Some(group_daily_by_project(Unwrap(daily).value)),
                        entries |-> Unwrap(daily).value,
                        totals |-> calculate_totals_daily(Unwrap(daily).value) ])
    /\ pc' = "done"
    /\ UNCHANGED << env, scan_retries, claude_paths, run, first, file_list, sorted_files, chunk_start,
                    parsed_chunks, processed_hashes, aggregates, results, daily, outcome,
                    folded >>

NextGroup == GroupDaily

SpecGroup == InitGroup /\ [][NextGroup]_vars

-----------------------------------------------------------------------------
(* What the claims speak of *)

RECURSIVE SumSeq(_)
SumSeq(numbers) ==
    IF numbers = << >> THEN 0 ELSE Head(numbers) + SumSeq(Tail(numbers))

RECURSIVE SumOver(_, _)
SumOver(f, S) ==
    IF S = {} THEN 0
    ELSE LET x == CHOOSE x \in S : TRUE IN f[x] + SumOver(f, S \ {x})

\* the files discovered under the roots of the run
FoundFiles ==
    IF ~ClaudePaths(env).ok THEN {}
    ELSE UNION { GlobMatches(base, env.fs, base \in WithProjects(env)) :
                   base \in Range(ClaudePaths(env).value) }

\* the files the run reads: those discovered that pass the project filter on the file list
ReadFiles ==
    { f \in FoundFiles :
        IsSome(env.options.project) =>
            extract_project_from_path(env.fs[f].path) = Unwrap(env.options.project) }

\* the records file f holds, in line order (none for a command line that names
\* no cost mode: no file is parsed then)
RecordsOf(f) ==
    IF ~parse_cost_mode(env.options.mode).ok THEN << >>
    ELSE
    parse_file_records(f, env.fs[f], extract_project_from_path(env.fs[f].path),
        env.options,
        IF env.options.mode = "display" THEN None ELSE Some(env.dataset_order),
        env.local_offset).value

\* the record read at <<file, line>>
RecordAt(origin) ==
    CHOOSE r \in Range(RecordsOf(origin[1])) : r.origin = origin

\* the origins of all records of the files read
AllOrigins == UNION { { r.origin : r \in Range(RecordsOf(f)) } : f \in ReadFiles }

\* the identity keys that occur in the records of the files read
AllKeys == { Unwrap(RecordAt(o).unique_hash) : o \in { o \in AllOrigins :
                                                       IsSome(RecordAt(o).unique_hash) } }

\* a file's minimum timestamp: the least instant on a line that decodes and has an
\* RFC3339 timestamp, None without such a line
MinTimestamp(f) ==
    LET instants == { Unwrap(Unwrap(env.fs[f].lines[n].data).timestamp).utc :
                      n \in { n \in 1..Len(env.fs[f].lines) :
                                /\ env.fs[f].lines[n].form = "json"
                                /\ IsSome(Unwrap(env.fs[f].lines[n].data).timestamp)
                                /\ Unwrap(Unwrap(env.fs[f].lines[n].data).timestamp).parses } }
    IN  IF instants = {} THEN None
        ELSE Some(CHOOSE t \in instants : \A u \in instants : t <= u)

\* a comes strictly before b in the chronological order of files
Earlier(a, b) ==
    \/ IsSome(MinTimestamp(a)) /\ ~IsSome(MinTimestamp(b))
    \/ IsSome(MinTimestamp(a)) /\ IsSome(MinTimestamp(b))
         /\ Unwrap(MinTimestamp(a)) < Unwrap(MinTimestamp(b))

\* the four token counts of a record, of a result entry
TokensOfRecord(r) ==
    << r.tokens.input_tokens, r.tokens.output_tokens,
       r.tokens.cache_creation_input_tokens, r.tokens.cache_read_input_tokens >>

TokensOfEntry(e) ==
    << e.input_tokens, e.output_tokens, e.cache_creation_tokens, e.cache_read_tokens >>

\* the fold has ended and the finalisation has not begun
FoldDone == pc = "finalize" /\ results = << >>

\* the records folded into the bucket with the given key, in fold order
FoldedInto(key) ==
    SelectSeq([ n \in 1..Len(folded) |-> RecordAt(folded[n]) ],
              LAMBDA r : GroupKey(r, NeedsProjectGrouping(env.options)) = key)

\* the bucket map holds what the folded records add up to, and nothing else
BucketsHoldFolded ==
    /\ DOMAIN aggregates =
         { GroupKey(RecordAt(folded[n]), NeedsProjectGrouping(env.options)) :
             n \in 1..Len(folded) }
    /\ \A key \in DOMAIN aggregates :
         LET rs == FoldedInto(key)
             named == SelectSeq(rs, LAMBDA r : r.model # Some(SYNTHETIC))
             NameOf(r) == UnwrapOr(r.model, UNKNOWN)
         IN  /\ \A c \in 1..4 :
                    TokensOfEntry(aggregates[key])[c]
                        = SumSeq([ n \in 1..Len(rs) |-> TokensOfRecord(rs[n])[c] ])
             /\ aggregates[key].total_cost = SumSeq([ n \in 1..Len(rs) |-> rs[n].cost ])
             /\ Range(aggregates[key].models_used)
                    = { Unwrap(r.model) : r \in { r \in Range(named) : IsSome(r.model) } }
             /\ DOMAIN aggregates[key].model_breakdowns = { NameOf(r) : r \in Range(named) }
             /\ \A name \in DOMAIN aggregates[key].model_breakdowns :
                    LET of_name == SelectSeq(named, LAMBDA r : NameOf(r) = name)
                    IN  /\ aggregates[key].model_breakdowns[name].input_tokens
                              = SumSeq([ n \in 1..Len(of_name) |->
                                           of_name[n].tokens.input_tokens ])
                        /\ aggregates[key].model_breakdowns[name].cost
                              = SumSeq([ n \in 1..Len(of_name) |-> of_name[n].cost ])

-----------------------------------------------------------------------------
(* C1 *)

\* the positions in sorted_files of the files that hold a record with key k
Holders(k) ==
    { i \in 1..Len(sorted_files) :
        \E r \in Range(RecordsOf(sorted_files[i])) : r.unique_hash = Some(k) }

\* the first record with key k of the first file, in sorted order, that holds k
FirstOccurrence(k) ==
    LET w == CHOOSE i \in Holders(k) : \A j \in Holders(k) : i <= j
        rs == RecordsOf(sorted_files[w])
    IN  rs[CHOOSE n \in 1..Len(rs) :
               /\ rs[n].unique_hash = Some(k)
               /\ \A m \in 1..(n - 1) : rs[m].unique_hash # Some(k)]

\* C1: when the fold of load_daily_usage_data has ended, for every identity key
\* of the files read exactly one record with that key has been folded; it is the
\* first record with the key in the first file, in sorted order, that holds the
\* key; no file that holds the key has an earlier minimum timestamp than that
\* file; and the buckets hold the tokens, cost, models and breakdowns of the
\* folded records only.
C1_FirstOccurrenceOfEarliestFileWins ==
    FoldDone =>
        /\ \A k \in AllKeys :
             LET kept == { n \in 1..Len(folded) :
                             RecordAt(folded[n]).unique_hash = Some(k) }
             IN  /\ Cardinality(kept) = 1
                 /\ \A n \in kept :
                      /\ folded[n] = FirstOccurrence(k).origin
                      /\ \A j \in Holders(k) : ~Earlier(sorted_files[j], folded[n][1])
        /\ BucketsHoldFolded

\* a key held by two files, twice by the first file listed, is kept from the other
\* file, whose minimum timestamp is earlier
C1_Witness ==
    /\ FoldDone
    /\ \E k \in AllKeys :
         /\ Cardinality({ o \in AllOrigins : RecordAt(o).unique_hash = Some(k) }) >= 3
         /\ \E n \in 1..Len(folded) :
              /\ RecordAt(folded[n]).unique_hash = Some(k)
              /\ folded[n][1] = 2
              /\ Earlier(2, 1)

-----------------------------------------------------------------------------
(* C2 *)

\* the daily command has returned a list and no date range or project was asked for
DailyUnfiltered ==
    /\ pc = "done"
    /\ env.command = "daily"
    /\ Unwrap(outcome).ok
    /\ env.options.since = None
    /\ env.options.until = None
    /\ env.options.project = None

\* the sum of the c-th token count over the entries of a list
EntryTokenSum(entries, c) ==
    SumSeq([ n \in 1..Len(entries) |-> TokensOfEntry(entries[n])[c] ])

\* C2: when load_daily_usage_data has run without date range and project filter,
\* there is a choice of one record per identity key such that each of the four
\* token counts, summed over the returned entries, is the sum of that count
\* over all records without a key plus the chosen record of every key.
C2_TokenSumsAreThoseOfRetainedRecords ==
    DailyUnfiltered =>
        \E keep \in [AllKeys -> AllOrigins] :
            /\ \A k \in AllKeys : RecordAt(keep[k]).unique_hash = Some(k)
            /\ \A c \in 1..4 :
                 EntryTokenSum(Unwrap(outcome).value, c)
                   = SumOver([ o \in AllOrigins |->
                                 IF RecordAt(o).unique_hash = None
                                 THEN TokensOfRecord(RecordAt(o))[c] ELSE 0 ], AllOrigins)
                     + SumOver([ k \in AllKeys |-> TokensOfRecord(RecordAt(keep[k]))[c] ],
                               AllKeys)

\* two days are returned for files in which a key occurs more than once beside a
\* record without a key
C2_Witness ==
    /\ DailyUnfiltered
    /\ Len(Unwrap(outcome).value) = 2
    /\ \E o \in AllOrigins : RecordAt(o).unique_hash = None
    /\ \E o1, o2 \in AllOrigins :
         /\ o1 # o2
         /\ IsSome(RecordAt(o1).unique_hash)
         /\ RecordAt(o1).unique_hash = RecordAt(o2).unique_hash

-----------------------------------------------------------------------------
(* C3 *)

\* every file read has a minimum timestamp and no two have the same, so that the
\* sorted file list is the same for every discovery order
DistinctFileTimes ==
    \A f, g \in ReadFiles :
        /\ env.fs[f].readable
        /\ IsSome(MinTimestamp(f))
        /\ f # g => MinTimestamp(f) # MinTimestamp(g)

\* C3: when the same command has run twice on the same files with the same
\* options, the second run returns the list the first run returned: the same
\* entries in the same order, with the same models_used and model_breakdowns
\* orders. It is stated for files whose sorted order is fixed by their
\* timestamps, where only scheduling and map iteration order can differ.
C3_SecondRunReturnsTheSameList ==
    (run = 2 /\ pc = "done" /\ DistinctFileTimes) => outcome = first

-----------------------------------------------------------------------------
(* C4 *)

\* what an entry reports for its date (or month) and project, without the orders
\* inside it
EntryTotals(e) ==
    << IF "date" \in DOMAIN e THEN e.date ELSE e.month, e.project, TokensOfEntry(e),
       e.total_cost >>

\* C4: two runs of load_daily_usage_data on the same files, which may differ in
\* the order in which the discovery returned the files, return entries with the
\* same dates, projects, token counts and costs.
C4_DiscoveryOrderDoesNotChangeTotals ==
    (run = 2 /\ pc = "done" /\ env.command = "daily") =>
        /\ Unwrap(outcome).ok = Unwrap(first).ok
        /\ { EntryTotals(e) : e \in Range(Unwrap(outcome).value) }
             = { EntryTotals(e) : e \in Range(Unwrap(first).value) }

-----------------------------------------------------------------------------
(* C5 *)

\* a line the parser must skip: it does not decode, or it lacks the message, the
\* usage payload, the input or the output count, or the timestamp, or its
\* timestamp is not an RFC3339 instant
Unusable(line) ==
    \/ line.form = "malformed"
    \/ /\ line.form = "json"
       /\ \/ Unwrap(line.data).message = None
          \/ Unwrap(Unwrap(line.data).message).usage = None
          \/ Unwrap(Unwrap(Unwrap(line.data).message).usage).input_tokens = None
          \/ Unwrap(Unwrap(Unwrap(line.data).message).usage).output_tokens = None
          \/ Unwrap(line.data).timestamp = None
          \/ ~Unwrap(Unwrap(line.data).timestamp).parses

\* opening or reading file f fails
IoFails(f) ==
    \/ ~env.fs[f].readable
    \/ \E n \in 1..Len(env.fs[f].lines) : env.fs[f].lines[n].form = "invalid_utf8"

\* the zone asked for exists (or none is asked for)
ZoneKnown ==
    env.options.timezone \in { None, Some("UTC"), Some("Asia/Tokyo") }

\* C5: a worker that has parsed a file whose lines can all be read returns Ok,
\* whatever unusable lines the file holds; no record it returns comes from an
\* unusable line; when the zone asked for exists, it returns one record for
\* every other decoded line, with that line's input and output counts; and no
\* unusable line is ever folded into the aggregates.
C5_UnusableLinesAreSkipped ==
    /\ pc = "parse" =>
         \A i \in 1..Len(parsed_chunks) :
            parsed_chunks[i] # None =>
                LET f == Chunk(sorted_files, chunk_start, env.num_threads)[i]
                    lines == env.fs[f].lines
                    got == Unwrap(parsed_chunks[i])
                IN  /\ got.ok <=> ~IoFails(f)
                    /\ \A r \in Range(got.value) : ~Unusable(lines[r.origin[2]])
                    /\ got.ok /\ ZoneKnown =>
                         /\ [ n \in 1..Len(got.value) |-> got.value[n].origin[2] ]
                              = SelectSeq([ n \in 1..Len(lines) |-> n ],
                                    LAMBDA n : lines[n].form = "json" /\ ~Unusable(lines[n]))
                         /\ \A r \in Range(got.value) :
                              LET usage == Unwrap(Unwrap(Unwrap(
                                               lines[r.origin[2]].data).message).usage)
                              IN  /\ r.tokens.input_tokens = Unwrap(usage.input_tokens)
                                  /\ r.tokens.output_tokens = Unwrap(usage.output_tokens)
    /\ \A n \in 1..Len(folded) : ~Unusable(env.fs[folded[n][1]].lines[folded[n][2]])

\* a file whose first line is unusable and whose second line is a record has
\* been parsed: the worker's result is the one record of line 2
C5_Witness ==
    /\ pc = "parse"
    /\ Len(parsed_chunks) = 1
    /\ parsed_chunks[1] # None
    /\ Unwrap(parsed_chunks[1]).ok
    /\ Len(Unwrap(parsed_chunks[1]).value) = 1
    /\ Unwrap(parsed_chunks[1]).value[1].origin = << 1, 2 >>
    /\ Unusable(env.fs[1].lines[1])

-----------------------------------------------------------------------------
(* C6 *)

\* C6: when opening or reading one of the files to parse fails, what
\* load_daily_usage_data returns, and what the command returns, is the error:
\* no list, whatever else was parsed.
C6_IoFailureFailsTheCall ==
    (\E f \in ReadFiles : IoFails(f)) =>
        /\ daily # None => daily = Some(Err)
        /\ outcome # None => outcome = Some(Err)

\* the error is returned for three files of which the only one that fails cannot
\* be opened: it sorts last, after a batch of two files that was parsed and folded
C6_Witness ==
    /\ daily = Some(Err)
    /\ Cardinality(ReadFiles) = 3
    /\ \E f \in ReadFiles :
         /\ ~env.fs[f].readable
         /\ \A g \in ReadFiles \ {f} : ~IoFails(g) /\ IsSome(MinTimestamp(g))

-----------------------------------------------------------------------------
(* C7 *)

RECURSIVE DigitsValue(_)
\* the number a string of decimal digits writes
DigitsValue(digits) ==
    IF digits = << >> THEN 0
    ELSE 10 * DigitsValue(SubSeq(digits, 1, Len(digits) - 1))
         + (CHOOSE d \in 0..9 : ToString(d) = digits[Len(digits)])

\* the day of a YYYY-MM-DD date, as the number YYYYMMDD
DayNumber(date) ==
    DigitsValue(SelectSeq(date, LAMBDA c : c # "-"))

\* the day lies in the range asked for, both ends included
InAskedRange(date) ==
    /\ IsSome(env.options.since) => DayNumber(date) >= DigitsValue(Unwrap(env.options.since))
    /\ IsSome(env.options.until) => DayNumber(date) <= DigitsValue(Unwrap(env.options.until))

\* the options are valid and there is nothing to report under the roots of the
\* run: no projects directory, no .jsonl file, no file of the project asked for, or files that are all read
\* without failure and hold no record in the range asked for
NothingToReport ==
    /\ common_options(env.options).ok
    /\ ClaudePaths(env).ok
    /\ \/ WithProjects(env) = {}
       \/ FoundFiles = {}
       \/ ReadFiles = {}
       \/ /\ \A f \in ReadFiles : ~IoFails(f)
          /\ \A o \in AllOrigins : ~InAskedRange(RecordAt(o).date)

\* C7: when there is nothing to report, load_daily_usage_data and the command
\* (daily or monthly) return Ok with an empty list.
C7_NothingToReportIsOkEmpty ==
    NothingToReport =>
        /\ daily # None => daily = Some(Ok(<< >>))
        /\ outcome # None => outcome = Some(Ok(<< >>))

\* the monthly command has returned the empty list for files of another project
\* than the one asked for
C7_Witness ==
    /\ pc = "done"
    /\ env.command = "monthly"
    /\ outcome = Some(Ok(<< >>))
    /\ IsSome(env.options.project)
    /\ FoundFiles # {}
    /\ ReadFiles = {}

-----------------------------------------------------------------------------
(* C8 *)

\* the daily command has returned a list
DailyDone == pc = "done" /\ env.command = "daily" /\ Unwrap(outcome).ok

\* C8: the days of the entries the daily command returns are the days of the
\* folded records whose number YYYYMMDD is at least since, when since is
\* given, and at most until, when until is given: a day equal to a bound is
\* kept, a day outside is dropped, and without bounds every day is kept.
C8_DateRangeIsInclusive ==
    DailyDone =>
        { e.date : e \in Range(Unwrap(outcome).value) }
          = { d \in { RecordAt(folded[n]).date : n \in 1..Len(folded) } : InAskedRange(d) }

\* records of the day before, the day and the day after were folded, and the range
\* from the day to the day returns the day's entry alone
C8_Witness ==
    /\ DailyDone
    /\ env.options.since = Some(Day31)
    /\ env.options.until = Some(Day31)
    /\ Cardinality({ RecordAt(folded[n]).date : n \in 1..Len(folded) }) = 3
    /\ Len(Unwrap(outcome).value) = 1
    /\ DayNumber(Unwrap(outcome).value[1].date) = DigitsValue(Day31)

-----------------------------------------------------------------------------
(* C9 *)

\* the date or month of an entry as a number
EntryNumber(e) == DayNumber(IF "date" \in DOMAIN e THEN e.date ELSE e.month)

\* the list is in the order asked for
InOrder(list, order) ==
    \A i, j \in 1..Len(list) :
        i < j => IF order = "asc" THEN EntryNumber(list[i]) <= EntryNumber(list[j])
                 ELSE EntryNumber(list[i]) >= EntryNumber(list[j])

Reverse(list) == [ i \in 1..Len(list) |-> list[Len(list) + 1 - i] ]

DistinctNumbers(list) ==
    \A i, j \in 1..Len(list) : i # j => EntryNumber(list[i]) # EntryNumber(list[j])

\* C9: a list that load_daily_usage_data or the command returns is
\* non-decreasing by date (by month for the monthly command) when the order is
\* asc and non-increasing when it is desc; and for the entries about to be
\* returned, when their dates (months) are distinct, the list for asc is the
\* list for desc reversed.
C9_ResultIsSortedByDate ==
    /\ (daily # None /\ Unwrap(daily).ok) => InOrder(Unwrap(daily).value, env.options.order)
    /\ (outcome # None /\ Unwrap(outcome).ok) =>
           InOrder(Unwrap(outcome).value, env.options.order)
    /\ (pc = "finalize" /\ DOMAIN aggregates = {}) =>
           LET asc == FinalResults(results, [ env.options EXCEPT !.order = "asc" ])
               desc == FinalResults(results, [ env.options EXCEPT !.order = "desc" ])
           IN  DistinctNumbers(asc) => asc = Reverse(desc)
    /\ (pc = "monthly_finalize" /\ DOMAIN aggregates = {}) =>
           LET asc == sort_by_date(results, "month", "asc")
               desc == sort_by_date(results, "month", "desc")
           IN  DistinctNumbers(asc) => asc = Reverse(desc)

\* three days are returned, latest first, by a run whose files were read earliest
\* first
C9_Witness ==
    /\ DailyDone
    /\ env.options.order = "desc"
    /\ Len(Unwrap(outcome).value) = 3
    /\ DistinctNumbers(Unwrap(outcome).value)
    /\ Len(folded) = 3
    /\ RecordAt(folded[1]).date = Unwrap(outcome).value[3].date

-----------------------------------------------------------------------------
(* C10 *)

\* the folded records of the bucket an entry reports, in fold order
RecordsOfEntry(e) ==
    SelectSeq([ n \in 1..Len(folded) |-> RecordAt(folded[n]) ],
              LAMBDA r : r.date = e.date /\ (e.project = None \/ e.project = Some(r.project)))

\* C10: no entry that a command returns lists the synthetic marker in
\* models_used or in model_breakdowns; an entry that the daily command returns
\* has the token counts and the cost of all folded records of its bucket,
\* those of the synthetic marker included, and lists in models_used each other
\* model named by these records, once.
C10_SyntheticCountsButIsNotListed ==
    /\ (outcome # None /\ Unwrap(outcome).ok) =>
         \A e \in Range(Unwrap(outcome).value) :
            /\ \A n \in 1..Len(e.models_used) : e.models_used[n] # SYNTHETIC
            /\ \A n \in 1..Len(e.model_breakdowns) :
                   e.model_breakdowns[n].model_name # SYNTHETIC
    /\ DailyDone =>
         \A e \in Range(Unwrap(outcome).value) :
            LET rs == RecordsOfEntry(e)
            IN  /\ \A c \in 1..4 :
                     TokensOfEntry(e)[c]
                       = SumSeq([ n \in 1..Len(rs) |-> TokensOfRecord(rs[n])[c] ])
                /\ e.total_cost = SumSeq([ n \in 1..Len(rs) |-> rs[n].cost ])
                /\ Range(e.models_used)
                     = { Unwrap(r.model) :
                           r \in { r \in Range(rs) : IsSome(r.model)
                                                      /\ r.model # Some(SYNTHETIC) } }
                /\ Len(e.models_used) = Cardinality(Range(e.models_used))

\* records with the models A, A and the synthetic marker were folded into one
\* bucket: the entry lists A alone and counts the tokens of the three records
C10_Witness ==
    /\ DailyDone
    /\ Len(Unwrap(outcome).value) = 1
    /\ Len(folded) = 3
    /\ [ n \in 1..3 |-> RecordAt(folded[n]).model ]
         = << Some(ModelA), Some(ModelA), Some(SYNTHETIC) >>
    /\ Unwrap(outcome).value[1].models_used = << ModelA >>
    /\ Unwrap(outcome).value[1].input_tokens = 1 + 2 + 3

-----------------------------------------------------------------------------
(* C11 *)

\* load_daily_usage_data has returned a list (to the daily or the monthly command)
DailyReturned == daily # None /\ Unwrap(daily).ok

\* C11: for every entry load_daily_usage_data returns and each of the four
\* token counts, the sum of the count over the entry's model_breakdowns is the
\* entry's total of that count less the sum of the count over the folded
\* records of its bucket whose model is the synthetic marker.
C11_BreakdownsSumToTotalsLessSynthetic ==
    DailyReturned =>
        \A e \in Range(Unwrap(daily).value) :
            LET synthetic == SelectSeq(RecordsOfEntry(e),
                                       LAMBDA r : r.model = Some(SYNTHETIC))
            IN  \A c \in 1..4 :
                    SumSeq([ n \in 1..Len(e.model_breakdowns) |->
                               TokensOfEntry(e.model_breakdowns[n])[c] ])
                      = TokensOfEntry(e)[c]
                        - SumSeq([ n \in 1..Len(synthetic) |->
                                     TokensOfRecord(synthetic[n])[c] ])

\* a bucket of three records, one of model A, one without model and one with the
\* synthetic marker: its breakdowns add up to less than its totals
C11_Witness ==
    /\ DailyReturned
    /\ Len(Unwrap(daily).value) = 1
    /\ LET e == Unwrap(daily).value[1]
       IN  /\ { r.model : r \in Range(RecordsOfEntry(e)) }
                = { None, Some(ModelA), Some(SYNTHETIC) }
           /\ Len(e.model_breakdowns) = 2
           /\ SumSeq([ n \in 1..2 |-> e.model_breakdowns[n].cache_creation_tokens ])
                < e.cache_creation_tokens

-----------------------------------------------------------------------------
(* C12 *)

\* the position in a sequence of records of the first one whose model is name
FirstSeen(rs, name) ==
    CHOOSE n \in 1..Len(rs) :
        /\ rs[n].model = Some(name)
        /\ \A m \in 1..(n - 1) : rs[m].model # Some(name)

\* C12: for every entry load_daily_usage_data returns: models_used holds the
\* model names of the folded records of its bucket other than the synthetic
\* marker, each once, in the order in which the fold first met them, so a
\* record without model adds nothing to it; and when the bucket has records
\* without model, the breakdown named "unknown" has the token counts and the
\* cost of the records without model or with the model name "unknown".
C12_ModelListIsFirstSeenAndNoModelIsUnknown ==
    DailyReturned =>
        \A e \in Range(Unwrap(daily).value) :
            LET rs == RecordsOfEntry(e)
                names == { Unwrap(r.model) :
                             r \in { r \in Range(rs) : IsSome(r.model)
                                                        /\ r.model # Some(SYNTHETIC) } }
                unknown == SelectSeq(rs, LAMBDA r : r.model \in { None, Some(UNKNOWN) })
            IN  /\ Range(e.models_used) = names
                /\ Len(e.models_used) = Cardinality(names)
                /\ \A i, j \in 1..Len(e.models_used) :
                     i < j => FirstSeen(rs, e.models_used[i]) < FirstSeen(rs, e.models_used[j])
                /\ (\E r \in Range(rs) : r.model = None) =>
                     \E n \in 1..Len(e.model_breakdowns) :
                        LET b == e.model_breakdowns[n]
                        IN  /\ b.model_name = UNKNOWN
                            /\ \A c \in 1..4 :
                                 TokensOfEntry(b)[c]
                                   = SumSeq([ m \in 1..Len(unknown) |->
                                                TokensOfRecord(unknown[m])[c] ])
                            /\ b.cost = SumSeq([ m \in 1..Len(unknown) |-> unknown[m].cost ])

\* records of model B, of no model and of model A were folded in this order into
\* one bucket: it lists B before A and has a breakdown named "unknown"
C12_Witness ==
    /\ DailyReturned
    /\ Len(Unwrap(daily).value) = 1
    /\ Len(folded) = 3
    /\ [ n \in 1..3 |-> RecordAt(folded[n]).model ] = << Some(ModelB), None, Some(ModelA) >>
    /\ Unwrap(daily).value[1].models_used = << ModelB, ModelA >>
    /\ \E n \in 1..3 : Unwrap(daily).value[1].model_breakdowns[n].model_name = UNKNOWN

-----------------------------------------------------------------------------
(* C13 *)

\* the cost derived from the tokens of a decoded line and the pricing of its
\* model: 0 without model or without pricing match
DerivedCost(data) ==
    LET message == Unwrap(data.message)
        usage == Unwrap(message.usage)
        tokens == [ input_tokens |-> Unwrap(usage.input_tokens),
                    output_tokens |-> Unwrap(usage.output_tokens),
                    cache_creation_input_tokens |-> UnwrapOr(usage.cache_creation_input_tokens, 0),
                    cache_read_input_tokens |-> UnwrapOr(usage.cache_read_input_tokens, 0) ]
    IN  IF message.model = None THEN 0
        ELSE IF get_model_pricing(Unwrap(message.model), env.dataset_order) = None THEN 0
        ELSE calculate_cost_from_pricing(tokens,
                 Unwrap(get_model_pricing(Unwrap(message.model), env.dataset_order)))

\* the records a worker has parsed, each with the decoded line it was read from
ParsedWithLine ==
    IF pc # "parse" THEN {}
    ELSE UNION { { << r, Unwrap(env.fs[r.origin[1]].lines[r.origin[2]].data) >> :
                     r \in Range(Unwrap(parsed_chunks[i]).value) } :
                 i \in { i \in 1..Len(parsed_chunks) : parsed_chunks[i] # None } }

\* C13: the cost of every parsed record is, in display mode, the embedded cost
\* of its line or 0 without one; in calculate mode, the cost derived from its
\* tokens and its model's pricing, whatever the line embeds; in auto mode, the
\* embedded cost when the line has one and the derived cost otherwise.
C13_CostModeChoosesTheCost ==
    \A p \in ParsedWithLine :
        LET cost == p[1].cost
            data == p[2]
        IN  /\ env.options.mode = "display" =>
                 cost = (IF data.cost_usd = None THEN 0 ELSE Unwrap(data.cost_usd))
            /\ env.options.mode = "calculate" => cost = DerivedCost(data)
            /\ env.options.mode = "auto" =>
                 cost = (IF data.cost_usd = None THEN DerivedCost(data)
                         ELSE Unwrap(data.cost_usd))

\* in auto mode a record that embeds a cost has that cost, though its tokens and
\* its model's pricing give another
C13_Witness ==
    /\ env.options.mode = "auto"
    /\ \E p \in ParsedWithLine :
         /\ p[2].cost_usd = Some(7)
         /\ p[1].cost = 7
         /\ DerivedCost(p[2]) > 7

-----------------------------------------------------------------------------
(* C14 *)

\* the cost of n tokens of one category at a base rate and a tiered rate, either
\* of which may be absent
CategoryCost(n, base, tiered) ==
    LET rate == IF base = None THEN 0 ELSE Unwrap(base)
    IN  IF n <= 200000 THEN n * rate
        ELSE IF tiered = None THEN n * rate
        ELSE 200000 * rate + (n - 200000) * Unwrap(tiered)

\* the parsed records whose cost was calculated from a pricing entry, each with
\* that entry
PricedRecords ==
    { << p[1], Unwrap(get_model_pricing(Unwrap(p[1].model), env.dataset_order)) >> :
        p \in { p \in ParsedWithLine :
                  /\ env.options.mode = "calculate"
                  /\ p[1].model # None
                  /\ get_model_pricing(Unwrap(p[1].model), env.dataset_order) # None } }

\* C14: the calculated cost of a record is the sum of its four category costs;
\* a category of n tokens costs n x base rate up to and at the threshold of
\* 200000, 200000 x base rate + (n - 200000) x tiered rate above it when the
\* category has a tiered rate, n x base rate when it has none, and an absent base
\* rate counts as 0.
C14_CostIsTheSumOfTieredCategoryCosts ==
    \A q \in PricedRecords :
        LET r == q[1]
            pricing == q[2]
        IN  r.cost =
              CategoryCost(r.tokens.input_tokens, pricing.input_cost_per_token,
                           pricing.input_cost_per_token_above_200k_tokens)
              + CategoryCost(r.tokens.output_tokens, pricing.output_cost_per_token,
                             pricing.output_cost_per_token_above_200k_tokens)
              + CategoryCost(r.tokens.cache_creation_input_tokens,
                             pricing.cache_creation_input_token_cost,
                             pricing.cache_creation_input_token_cost_above_200k_tokens)
              + CategoryCost(r.tokens.cache_read_input_tokens,
                             pricing.cache_read_input_token_cost,
                             pricing.cache_read_input_token_cost_above_200k_tokens)

\* a record of 200001 input tokens and 200000 output tokens, at base rates 3 and
\* 15 and tiered rates 6 and 22, costs 200000 x 3 + 1 x 6 + 200000 x 15
C14_Witness ==
    \E q \in PricedRecords :
        /\ q[2].input_cost_per_token = Some(3)
        /\ q[2].input_cost_per_token_above_200k_tokens = Some(6)
        /\ q[2].output_cost_per_token_above_200k_tokens = Some(22)
        /\ q[1].tokens.input_tokens = 200001
        /\ q[1].tokens.output_tokens = 200000
        /\ q[1].tokens.cache_creation_input_tokens = 0
        /\ q[1].tokens.cache_read_input_tokens = 0
        /\ q[1].cost = 3600006

-----------------------------------------------------------------------------
(* C15 *)

\* load_monthly_usage_data has returned a list, made from the list that its call
\* of load_daily_usage_data returned
MonthlyDone ==
    /\ pc = "done"
    /\ env.command = "monthly"
    /\ Unwrap(outcome).ok
    /\ DailyReturned

MonthOf(date) == SubSeq(date, 1, 7)

\* the daily entries whose date starts with the month
DailyOfMonth(month) ==
    SelectSeq(Unwrap(daily).value, LAMBDA d : Len(d.date) >= 7 /\ MonthOf(d.date) = month)

\* the folded records that the daily list retains and whose date starts with the
\* month
RetainedOfMonth(month) ==
    SelectSeq([ n \in 1..Len(folded) |-> RecordAt(folded[n]) ],
              LAMBDA r : /\ MonthOf(r.date) = month
                         /\ InAskedRange(r.date)
                         /\ IsSome(env.options.project) =>
                              r.project = Unwrap(env.options.project))

EntryCostSum(entries) == SumSeq([ n \in 1..Len(entries) |-> entries[n].total_cost ])

\* C15: every entry that load_monthly_usage_data returns has as month the first
\* 7 characters of the date of a daily entry; its four token sums and its cost
\* are the sums over the daily entries whose date starts with that month, and
\* the sums over the retained records whose date starts with that month; every
\* daily entry's month is the month of exactly one monthly entry.
C15_MonthlyIsTheSumOfTheMonthsDailyEntries ==
    MonthlyDone =>
        LET monthly == Unwrap(outcome).value
        IN  /\ \A m \in Range(monthly) :
                 /\ DailyOfMonth(m.month) # << >>
                 /\ \A c \in 1..4 :
                      /\ TokensOfEntry(m)[c] = EntryTokenSum(DailyOfMonth(m.month), c)
                      /\ TokensOfEntry(m)[c]
                           = SumSeq([ n \in 1..Len(RetainedOfMonth(m.month)) |->
                                        TokensOfRecord(RetainedOfMonth(m.month)[n])[c] ])
                 /\ m.total_cost = EntryCostSum(DailyOfMonth(m.month))
                 /\ m.total_cost
                      = SumSeq([ n \in 1..Len(RetainedOfMonth(m.month)) |->
                                   RetainedOfMonth(m.month)[n].cost ])
            /\ \A d \in Range(Unwrap(daily).value) :
                 Cardinality({ i \in 1..Len(monthly) : monthly[i].month = MonthOf(d.date) }) = 1

-----------------------------------------------------------------------------
(* C16 *)

\* the folded records of the entry's month (and of its project, when the entry
\* has one) whose day lies in the range asked for and whose project is the one
\* asked for
InRangeOfMonthlyEntry(m) ==
    SelectSeq(RetainedOfMonth(m.month),
              LAMBDA r : m.project = None \/ m.project = Some(r.project))

\* C16: the months of the entries load_monthly_usage_data returns are the months
\* of the records whose day lies within [since, until], both ends included, so
\* that a month without such a record is absent; and each entry has the token
\* counts and the cost of the records of its bucket whose day lies within the
\* range, and of no other.
C16_MonthlyCountsOnlyInRangeDays ==
    MonthlyDone =>
        /\ { m.month : m \in Range(Unwrap(outcome).value) }
             = { MonthOf(RecordAt(folded[n]).date) :
                   n \in { n \in 1..Len(folded) :
                             /\ InAskedRange(RecordAt(folded[n]).date)
                             /\ IsSome(env.options.project) =>
                                  RecordAt(folded[n]).project = Unwrap(env.options.project) } }
        /\ \A m \in Range(Unwrap(outcome).value) :
             /\ \A c \in 1..4 :
                  TokensOfEntry(m)[c]
                    = SumSeq([ n \in 1..Len(InRangeOfMonthlyEntry(m)) |->
                                 TokensOfRecord(InRangeOfMonthlyEntry(m)[n])[c] ])
             /\ m.total_cost
                  = SumSeq([ n \in 1..Len(InRangeOfMonthlyEntry(m)) |->
                               InRangeOfMonthlyEntry(m)[n].cost ])

\* records of 30 January, 31 January and 1 February were folded, and the range
\* from 31 January to 31 January returns January alone, with the tokens of the
\* record of the 31st
C16_Witness ==
    /\ MonthlyDone
    /\ env.options.since = Some(Day31)
    /\ env.options.until = Some(Day31)
    /\ Len(folded) = 3
    /\ { DayNumber(RecordAt(folded[n]).date) : n \in 1..3 } = { 20240130, 20240131, 20240201 }
    /\ Len(Unwrap(outcome).value) = 1
    /\ Unwrap(outcome).value[1].month = << "2", "0", "2", "4", "-", "0", "1" >>
    /\ Unwrap(outcome).value[1].input_tokens
         = RecordAt(CHOOSE o \in Range(folded) :
                      DayNumber(RecordAt(o).date) = 20240131).tokens.input_tokens

-----------------------------------------------------------------------------
(* C17 *)

\* get_claude_paths was called and has returned
PathsAsked == env.options.claude_path = None /\ claude_paths # None

\* the list of the environment is set and not blank
ListGiven ==
    /\ env.config_dir # None
    /\ \E i \in 1..Len(Unwrap(env.config_dir)) : Unwrap(env.config_dir)[i] # " "

\* the directories among the candidates that exist and have a projects
\* subdirectory, each in canonical form (as given where it has none)
ValidAmong(candidates) ==
    { IF env.dirs[base].canonical = None THEN base ELSE Unwrap(env.dirs[base].canonical) :
        base \in { base \in candidates \cap DOMAIN env.dirs :
                     env.dirs[base].is_dir /\ env.dirs[base].projects_is_dir } }

\* the directories the list names
Listed == Range(ListedBases(Unwrap(env.config_dir)))

\* the result is Ok with exactly the given directories, each once
IsOkWith(result, directories) ==
    /\ result.ok
    /\ Range(result.value) = directories
    /\ Len(result.value) = Cardinality(directories)

\* C17: when the list of the environment is set and not blank, get_claude_paths
\* returns exactly the listed directories that exist and have a projects
\* subdirectory, each once in canonical form, and fails when there is none,
\* whatever the default locations hold; when the list is unset or blank, it
\* returns the valid default locations in the same way and fails when there is
\* none.
C17_RootsAreTheValidListedOrElseDefaultOnes ==
    PathsAsked =>
        LET result == Unwrap(claude_paths)
            candidates == IF ListGiven THEN Listed ELSE Range(env.defaults)
        IN  IF ValidAmong(candidates) = {} THEN ~result.ok
            ELSE IsOkWith(result, ValidAmong(candidates))

\* the list names a missing directory and one without projects, a default
\* location is valid, and the call has failed
C17_Witness ==
    /\ PathsAsked
    /\ ListGiven
    /\ ValidAmong(Listed) = {}
    /\ ValidAmong(Range(env.defaults)) # {}
    /\ Listed # {}
    /\ ~Unwrap(claude_paths).ok
    /\ pc = "done"
    /\ ~Unwrap(outcome).ok

-----------------------------------------------------------------------------
(* C18 *)

\* the key of a file: its minimum timestamp, None for a file that cannot be
\* opened or has no line with a valid timestamp
SortKey(f) == IF ~env.fs[f].readable THEN None ELSE MinTimestamp(f)

\* key a is strictly before key b: an earlier instant, or an instant against none
KeyBefore(a, b) ==
    \/ IsSome(a) /\ ~IsSome(b)
    \/ IsSome(a) /\ IsSome(b) /\ Unwrap(a) < Unwrap(b)

PositionIn(list, x) == CHOOSE i \in 1..Len(list) : list[i] = x

\* output is input sorted by key, stably
IsStablySortedByKey(input, output) ==
    /\ Len(output) = Len(input)
    /\ \A f \in Range(input) :
         Cardinality({ i \in 1..Len(output) : output[i] = f })
           = Cardinality({ i \in 1..Len(input) : input[i] = f })
    /\ \A i, j \in 1..Len(output) :
         i < j =>
           /\ ~KeyBefore(SortKey(output[j]), SortKey(output[i]))
           /\ SortKey(output[i]) = SortKey(output[j]) =>
                PositionIn(input, output[i]) < PositionIn(input, output[j])

\* C18: the list sort_files_by_timestamp returns is a permutation of the list it
\* is given, ascending by the files' minimum valid timestamps, with every file
\* that has none after every file that has one, and with files of equal keys
\* (equal timestamps, or both none) in the order in which they were given.
C18_FilesAreStablySortedByEarliestTimestamp ==
    [][(pc = "sort" /\ pc' = "parse") => IsStablySortedByKey(file_list, sorted_files')]_vars

\* three files were sorted: one with a timestamp first, then two without, of
\* which one cannot be opened and one does not decode
C18_Witness ==
    /\ pc = "parse"
    /\ chunk_start = 0
    /\ Len(sorted_files) = 3
    /\ SortKey(sorted_files[1]) # None
    /\ SortKey(sorted_files[2]) = None
    /\ SortKey(sorted_files[3]) = None
    /\ sorted_files[1] > sorted_files[2]
    /\ \E i \in 2..3 : ~env.fs[sorted_files[i]].readable
    /\ \E i \in 2..3 : env.fs[sorted_files[i]].readable

-----------------------------------------------------------------------------
(* C19 *)

\* the decoded line a record was read from
DataAt(origin) == Unwrap(env.fs[origin[1]].lines[origin[2]].data)

\* the request id of a decoded line: the top-level one, or else that of the
\* request object; None without either
RequestIdOf(data) ==
    IF data.request_id # None THEN data.request_id
    ELSE IF data.request = None THEN None
    ELSE Unwrap(data.request).id

\* the identity key a decoded line should give: None without message id or
\* without request id
ExpectedKey(data) ==
    IF Unwrap(data.message).id = None \/ RequestIdOf(data) = None THEN None
    ELSE Some(Unwrap(Unwrap(data.message).id) \o << ":" >> \o Unwrap(RequestIdOf(data)))

\* C19: a parsed record has an identity key exactly when its line has a message
\* id and a request id, the top-level one or else that of the request object,
\* and the key is made of these two; once all records are folded, every record
\* without key has been counted, and a record that was not counted has a key
\* that a counted record has too.
C19_OnlyKeyedRecordsAreDeduplicated ==
    /\ \A p \in ParsedWithLine : p[1].unique_hash = ExpectedKey(p[2])
    /\ FoldDone =>
         \A o \in AllOrigins :
            /\ ExpectedKey(DataAt(o)) = None => o \in Range(folded)
            /\ o \notin Range(folded) =>
                 /\ ExpectedKey(DataAt(o)) # None
                 /\ \E kept \in Range(folded) :
                      /\ kept # o
                      /\ ExpectedKey(DataAt(kept)) = ExpectedKey(DataAt(o))

\* two records that are the same, with a message id and no request id, were both
\* counted: the bucket holds twice the tokens of one
C19_Witness ==
    /\ FoldDone
    /\ Len(env.fs) = 1
    /\ Len(env.fs[1].lines) = 2
    /\ env.fs[1].lines[1] = env.fs[1].lines[2]
    /\ env.fs[1].lines[1].form = "json"
    /\ << 1, 1 >> \in AllOrigins
    /\ Unwrap(DataAt(<< 1, 1 >>).message).id # None
    /\ DataAt(<< 1, 1 >>).request = Some([ id |-> None ])
    /\ ExpectedKey(DataAt(<< 1, 1 >>)) = None
    /\ Len(folded) = 2
    /\ \A key \in DOMAIN aggregates :
         aggregates[key].input_tokens = 2 * RecordAt(<< 1, 1 >>).tokens.input_tokens

-----------------------------------------------------------------------------
(* C20 *)

\* the first name of the list that is a key, as an Option
FirstKeyAmong(names, keys) ==
    IF \A i \in 1..Len(names) : names[i] \notin keys THEN None
    ELSE Some(names[CHOOSE i \in 1..Len(names) :
                       names[i] \in keys /\ \A j \in 1..(i - 1) : names[j] \notin keys])

\* the provider-prefixed variants of a name, in the order of the prefix list
Prefixed(name) == [ i \in 1..Len(provider_prefixes) |-> provider_prefixes[i] \o name ]

\* the alias of a name followed by the alias's prefixed variants; empty without alias
AliasStage(name) ==
    IF name \in DOMAIN model_aliases
    THEN << model_aliases[name] >> \o Prefixed(model_aliases[name])
    ELSE << >>

\* the keys that contain the name or are contained in it, case apart, in the
\* order of iteration
SubstringStage(name, dataset_order) ==
    SelectSeq(dataset_order, LAMBDA key :
        \/ Contains(ToLower(key), ToLower(name))
        \/ Contains(ToLower(name), ToLower(key)))

\* the key that the first matching stage gives, for the stages in the given order
StagedKey(stages, dataset_order) ==
    FirstKeyAmong(stages, Range(dataset_order))

\* the cost of a record priced by the entry of the key, 0 without key
CostUnderKey(r, key) ==
    IF key = None THEN 0
    ELSE calculate_cost_from_pricing(r.tokens, pricing_dataset[Unwrap(key)])

\* the parsed records of calculate mode that name a model
LookedUp == { p \in ParsedWithLine : env.options.mode = "calculate" /\ p[1].model # None }

\* C20 as stated: the lookup tries the exact name, then the alias and the alias's
\* prefixed variants, then the prefixed variants of the name, then the
\* substring match over the keys, and takes the first match; without match the
\* cost is 0.
C20_AliasBeforePrefixedVariants ==
    \A p \in LookedUp :
        LET name == Unwrap(p[1].model)
            order == env.dataset_order
        IN  p[1].cost =
              CostUnderKey(p[1],
                  StagedKey(<< name >> \o AliasStage(name) \o Prefixed(name)
                            \o SubstringStage(name, order), order))

\* C20 as amended: the lookup tries the exact name, then the prefixed variants
\* of the name in the order of the prefix list, then the alias and the alias's
\* prefixed variants, then the substring match over the keys in the order of
\* iteration, and takes the first match; without match the cost is 0.
C20_PrefixedVariantsBeforeAlias ==
    \A p \in LookedUp :
        LET name == Unwrap(p[1].model)
            order == env.dataset_order
        IN  p[1].cost =
              CostUnderKey(p[1],
                  StagedKey(<< name >> \o Prefixed(name) \o AliasStage(name)
                            \o SubstringStage(name, order), order))

\* the dataset has a prefixed variant of the aliased name and the alias, and the
\* record is priced by the prefixed variant
C20_Witness ==
    \E p \in LookedUp :
        /\ p[1].model = Some(Gpt5Codex)
        /\ { Gpt5, OpenaiGpt5Codex } \subseteq Range(env.dataset_order)
        /\ p[1].cost = CostUnderKey(p[1], Some(OpenaiGpt5Codex))
        /\ p[1].cost # CostUnderKey(p[1], Some(Gpt5))

-----------------------------------------------------------------------------
(* C21 *)

\* the position in a sequence of records of the first one counted under the
\* breakdown name (a record without model counts under "unknown")
FirstCounted(rs, name) ==
    CHOOSE n \in 1..Len(rs) :
        /\ UnwrapOr(rs[n].model, UNKNOWN) = name
        /\ \A m \in 1..(n - 1) : UnwrapOr(rs[m].model, UNKNOWN) # name

\* C21: in every entry load_daily_usage_data returns, model_breakdowns is in
\* non-increasing order of cost, and of two breakdowns of equal cost the one
\* whose model the fold met first comes first.
C21_BreakdownsByCostThenEncounterOrder ==
    DailyReturned =>
        \A e \in Range(Unwrap(daily).value) :
            \A i, j \in 1..Len(e.model_breakdowns) :
                i < j =>
                    /\ e.model_breakdowns[i].cost >= e.model_breakdowns[j].cost
                    /\ e.model_breakdowns[i].cost = e.model_breakdowns[j].cost =>
                         FirstCounted(RecordsOfEntry(e), e.model_breakdowns[i].model_name)
                           < FirstCounted(RecordsOfEntry(e), e.model_breakdowns[j].model_name)

-----------------------------------------------------------------------------
(* C22 *)

\* the name a list entry is grouped under
GroupNameOf(item) == IF IsSome(item.project) THEN Unwrap(item.project) ELSE UNKNOWN

\* the lists of the groups one after the other, in the given order of the names
RECURSIVE ListsTogether(_, _)
ListsTogether(groups, names) ==
    IF names = << >> THEN << >>
    ELSE groups[Head(names)] \o ListsTogether(groups, Tail(names))

\* a report that holds the groups of its entries
HasGroups ==
    /\ IsSome(report)
    /\ Unwrap(report).kind \in { "daily", "groups" }
    /\ IsSome(Unwrap(report).projects)

\* C22: the groups of a list partition it: there is one list per project name
\* of the entries ("unknown" for an entry without project), the list of a name
\* holds exactly the entries of that name in the order they have in the input,
\* and the totals over all the lists together are the totals of the input list.
C22_GroupsPartitionTheListInOrder ==
    HasGroups =>
        LET data == Unwrap(report).entries
            groups == Unwrap(Unwrap(report).projects)
        IN  /\ DOMAIN groups = { GroupNameOf(data[i]) : i \in 1..Len(data) }
            /\ \A name \in DOMAIN groups :
                   groups[name] = SelectSeq(data, LAMBDA item : GroupNameOf(item) = name)
            /\ \A names \in Orders(DOMAIN groups) :
                   calculate_totals_daily(ListsTogether(groups, names))
                       = calculate_totals_daily(data)
            /\ Unwrap(report).totals = calculate_totals_daily(data)

\* a list of three entries, one without project and two different ones of the
\* same project, has been grouped
C22_Witness ==
    /\ HasGroups
    /\ Unwrap(report).kind = "groups"
    /\ LET data == Unwrap(report).entries
       IN  /\ Len(data) = 3
           /\ data[1].project = Some(ProjectName(1))
           /\ data[2].project = None
           /\ data[3].project = Some(ProjectName(1))
           /\ data[1] # data[3]
           /\ UNKNOWN \in DOMAIN Unwrap(Unwrap(report).projects)

-----------------------------------------------------------------------------
(* C23 *)

\* the command line names a cost mode or a sort order that does not exist
InvalidArgs ==
    \/ env.options.mode \notin { "auto", "calculate", "display" }
    \/ env.options.order \notin { "asc", "desc" }

\* C23: when the cost-mode or the sort-order string of the command line is not
\* a valid one, run_daily and run_monthly fail before anything else happens: no
\* root is resolved, no file is discovered or read, no list is loaded and no
\* report is printed, and what the command returns is the error.
C23_InvalidArgsFailBeforeAnyWork ==
    InvalidArgs =>
        /\ pc \in { "start", "done" }
        /\ claude_paths = None
        /\ file_list = << >>
        /\ sorted_files = << >>
        /\ parsed_chunks = << >>
        /\ processed_hashes = {}
        /\ daily = None
        /\ report = None
        /\ pc = "done" => outcome = Some(Err)

\* the monthly command was given a valid mode and the order "ascending", with a
\* file of one record under the root of the environment, and has returned
C23_Witness ==
    /\ InvalidArgs
    /\ env.command = "monthly"
    /\ env.options.mode = "display"
    /\ env.options.order = "ascending"
    /\ ClaudePaths(env).ok
    /\ FoundFiles # {}
    /\ pc = "done"
    /\ outcome = Some(Err)

-----------------------------------------------------------------------------
(* C24 *)

\* the workers of the current batch that have finished
FinishedWorkers(chunks) == { i \in 1..Len(chunks) : chunks[i] # None }

\* this step is the end of a worker of the current batch
WorkerFinishes ==
    /\ pc = "parse"
    /\ pc' = "parse"
    /\ chunk_start' = chunk_start
    /\ FinishedWorkers(parsed_chunks') # FinishedWorkers(parsed_chunks)

\* this step writes the seen-set, the bucket map or the history of the fold
\* while the batches are being processed
FoldWrites ==
    /\ pc = "parse"
    /\ << processed_hashes, aggregates, folded >>' # << processed_hashes, aggregates, folded >>

\* this step ends the current batch
BatchEnds ==
    /\ pc = "parse"
    /\ chunk_start' # chunk_start \/ pc' # "parse"

\* C24: batches are processed one after another in sorted-file order. A step
\* that writes the seen-set or the bucket map (the fold of batch k) is taken
\* only when every parse worker of batch k has finished; it ends batch k, and
\* when it has ended no worker of batch k+1 has started yet; the batch that
\* follows is the next slice of the sorted files. A step in which a parse worker
\* finishes leaves the seen-set and the bucket map as they are, and is the step
\* of exactly one worker of the current batch.
C24_FoldAfterItsWorkersAndBeforeTheNext ==
    [][ /\ (FoldWrites \/ BatchEnds) =>
            FinishedWorkers(parsed_chunks) = 1..Len(parsed_chunks)
        /\ FoldWrites => BatchEnds
        /\ (BatchEnds /\ pc' = "parse") =>
            /\ chunk_start' = chunk_start + Len(parsed_chunks)
            /\ sorted_files' = sorted_files
            /\ FinishedWorkers(parsed_chunks') = {}
            /\ Len(parsed_chunks') = Len(Chunk(sorted_files, chunk_start', env.num_threads))
        /\ WorkerFinishes =>
            /\ UNCHANGED << processed_hashes, aggregates, folded, sorted_files >>
            /\ \E i \in 1..Len(parsed_chunks) :
                   /\ parsed_chunks[i] = None
                   /\ parsed_chunks'[i] # None
                   /\ \A j \in 1..Len(parsed_chunks) \ {i} :
                          parsed_chunks'[j] = parsed_chunks[j]
      ]_vars

\* three files in two batches: the fold of the first batch has written the
\* seen-set and the bucket map, and the worker of the second batch has finished
\* while the fold of the second batch has not begun
C24_Witness ==
    /\ pc = "parse"
    /\ Len(sorted_files) = 3
    /\ chunk_start = 2
    /\ FinishedWorkers(parsed_chunks) = {1}
    /\ processed_hashes # {}
    /\ DOMAIN aggregates # {}
    /\ Len(folded) >= 2

-----------------------------------------------------------------------------
(* C25 *)

\* C25: every per-file worker terminates on every file, also on a file whose
\* reads fail once or on every attempt, so that every invocation of the command
\* completes or fails: it reaches the point where it has returned.
C25_EveryInvocationReturns == <>(pc = "done")

-----------------------------------------------------------------------------
(* C26 *)

\* the files parsed and folded one at a time in the given order, each file's
\* records in line order: Err at the first file that cannot be read
RECURSIVE OneFileAtATime(_, _)
OneFileAtATime(st, files) ==
    IF files = << >> THEN Ok(st)
    ELSE IF ~process_jsonl_file_by_line(env.fs[Head(files)]).ok THEN Err
    ELSE OneFileAtATime(
             FoldRecords(st, RecordsOf(Head(files)), NeedsProjectGrouping(env.options)),
             Tail(files))

FoldStart == [ hashes |-> {}, aggs |-> EmptyMap, folded |-> << >> ]

\* an entry with its breakdowns as a set
EntryContents(e) == [ e EXCEPT !.model_breakdowns = Range(@) ]

\* the entries finalised from a bucket map, filtered and sorted as the call does
EntriesOf(aggs) ==
    LET keys == CHOOSE keys \in Orders(DOMAIN aggs) : TRUE
    IN  FinalResults(
            [ i \in 1..Len(keys) |->
                DailyUsageOf(keys[i], aggs[keys[i]],
                    CHOOSE order \in Orders(DOMAIN aggs[keys[i]].model_breakdowns) : TRUE) ],
            env.options)

\* C26: whatever the batch size and the order in which the workers of a batch
\* finish, the batched fold does what the fold of the files one at a time in
\* sorted order does: it fails when that fails, and otherwise the seen-set and
\* the bucket map after the last batch are those of the one-at-a-time fold, and
\* so are the entries returned (the same entries with the same contents).
C26_BatchedFoldIsTheOneFileAtATimeFold ==
    [][ /\ (pc = "parse" /\ pc' = "finalize") =>
            LET one == OneFileAtATime(FoldStart, sorted_files)
            IN  /\ one.ok
                /\ processed_hashes' = one.value.hashes
                /\ aggregates' = one.value.aggs
                /\ folded' = one.value.folded
        /\ (pc = "parse" /\ pc' = "daily_returned") =>
            /\ ~OneFileAtATime(FoldStart, sorted_files).ok
            /\ daily' = Some(Err)
        /\ (pc = "finalize" /\ pc' = "daily_returned") =>
            LET one == OneFileAtATime(FoldStart, sorted_files)
                returned == Unwrap(daily').value
            IN  /\ Unwrap(daily').ok
                /\ Len(returned) = Len(EntriesOf(one.value.aggs))
                /\ { EntryContents(e) : e \in Range(returned) }
                       = { EntryContents(e) : e \in Range(EntriesOf(one.value.aggs)) }
      ]_vars

\* three files were folded in one batch and, with another number of threads,
\* in two; a record of the second or third file was discarded for a key seen in
\* an earlier file
C26_Witness ==
    /\ FoldDone
    /\ Len(sorted_files) = 3
    /\ env.num_threads = MaxThreads + 1
    /\ BatchSize(env.num_threads) >= 3
    /\ \E other \in Inputs : other.fs = env.fs /\ BatchSize(other.num_threads) < 3
    /\ Len(folded) < Cardinality(AllOrigins)
    /\ processed_hashes # {}

-----------------------------------------------------------------------------
(* C27 *)

\* what the call with grouping by project and without project filter folds: all
\* the files found, sorted from the given discovery order, one after the other
GroupedFold(all_files) ==
    OneFileAtATime(FoldStart, sort_files_by_timestamp(all_files, env.fs))

\* C27: the project filter only selects. When the call with project filter P
\* returns entries, they are the entries of project P that the call with grouping
\* by project and no filter returns on the same files (for one of the orders in
\* which the discovery may return them), also when a record of P has the
\* identity key of a record in an earlier file of another project.
C27_ProjectFilterOnlySelects ==
    ( /\ pc = "daily_returned"
      /\ IsSome(env.options.project)
      /\ ClaudePaths(env).ok
      /\ Unwrap(daily).ok )
    => \E all_files \in glob_usage_files(ClaudePaths(env).value, env.fs, WithProjects(env)) :
           GroupedFold(all_files).ok =>
               { EntryContents(e) : e \in Range(Unwrap(daily).value) }
                   = { EntryContents(e) :
                         e \in Range(EntriesOf(GroupedFold(all_files).value.aggs)) }

-----------------------------------------------------------------------------
(* C28 *)

\* the other sort order
OtherOrder == IF env.options.order = "asc" THEN "desc" ELSE "asc"

\* the monthly entries folded from the given daily entries, in some order
MonthlyEntriesOf(entries) ==
    LET aggs == MonthlyFoldEntries(EmptyMap, entries, NeedsProjectGrouping(env.options))
        keys == CHOOSE keys \in Orders(DOMAIN aggs) : TRUE
    IN  [ i \in 1..Len(keys) |->
            MonthlyUsageOf(keys[i], aggs[keys[i]],
                CHOOSE order \in Orders(DOMAIN aggs[keys[i]].model_breakdowns) : TRUE) ]

\* C28: the sort order changes the order of the entries only. The entries that
\* load_daily_usage_data returns are, in their contents (token sums, cost,
\* models_used in its order, the breakdowns), the entries it returns under the
\* other order, and so are the entries load_monthly_usage_data returns, which
\* under the other order are folded from the daily entries sorted the other way.
C28_OrderOptionChangesOnlyTheOrder ==
    [][ /\ (pc = "finalize" /\ pc' = "daily_returned") =>
            /\ Len(Unwrap(daily').value)
                   = Len(FinalResults(results, [ env.options EXCEPT !.order = OtherOrder ]))
            /\ { EntryContents(e) : e \in Range(Unwrap(daily').value) }
                   = { EntryContents(e) :
                         e \in Range(FinalResults(results,
                                         [ env.options EXCEPT !.order = OtherOrder ])) }
        /\ (pc = "monthly_finalize" /\ pc' = "done") =>
            { EntryContents(e) : e \in Range(Unwrap(outcome').value) }
                = { EntryContents(e) :
                      e \in Range(MonthlyEntriesOf(
                                sort_by_date(Unwrap(daily).value, "date", OtherOrder))) }
      ]_vars

-----------------------------------------------------------------------------
(* C29 *)

\* the message id and the request id of a decoded line
IdPair(data) == << Unwrap(data.message).id, RequestIdOf(data) >>

\* C29: two records whose pairs of message id and request id differ never have
\* the same identity key, also when the ids contain a colon; so, once all
\* records are folded, a record that was not counted has the message id and the
\* request id of a counted record of an earlier line or file.
C29_KeyIsInjectiveOnIdPairs ==
    /\ \A p, q \in ParsedWithLine :
           (IsSome(p[1].unique_hash) /\ p[1].unique_hash = q[1].unique_hash)
               => IdPair(p[2]) = IdPair(q[2])
    /\ FoldDone =>
         \A o \in AllOrigins \ Range(folded) :
            \E kept \in Range(folded) : IdPair(DataAt(kept)) = IdPair(DataAt(o))

-----------------------------------------------------------------------------
(* C30 *)

\* the roots under whose projects directory the file was discovered
RootsOf(f) ==
    { base \in WithProjects(env) : f \in GlobMatches(base, env.fs, TRUE) }

\* C30: the project of every parsed record is the path component directly
\* below the projects directory of a root under which its file was discovered,
\* also when the path of the root itself has a component named projects.
C30_ProjectIsTheComponentBelowTheRootsProjects ==
    \A p \in ParsedWithLine :
        \E base \in RootsOf(p[1].origin[1]) :
            p[1].project = env.fs[p[1].origin[1]].path[Len(base) + 2]

=============================================================================
